---------------------------- MODULE Spec2Model ----------------------------
(***************************************************************************)
(* A model of the paldesigner save-import server: the wrapper detector and *)
(* decoder (save/detect.rs, save/parse.rs), the hint registry and resolver *)
(* (save/hint_registry.rs, save/normalize.rs), the planner extractor       *)
(* (save/normalize.rs) and the import driver (api/handlers/import_zip.rs). *)
(*                                                                         *)
(* Each part has a specification of its own over the module's variables:   *)
(*   SpecDetect  detect_save_variant, decode_to_gvas, inspect_gvas         *)
(*   SpecHints   parse_with_auto_hints and the hint registry               *)
(*   SpecWalk    parse_base_assignments and parse_character_map            *)
(*   Spec        run_import_zip, run_post_import_processing and the worker *)
(* The variables of the parts a specification does not run stay at their   *)
(* idle values.                                                            *)
(***************************************************************************)
EXTENDS Integers, Sequences, FiniteSets, Bags, TLC

VARIABLES
    \* ---- SpecDetect
    bytes,          \* the .sav byte slice handed to detect_save_variant
    variant,        \* SaveVariantInfo
    gvas,           \* GvasInspectResult
    decoded,        \* Result of decode_to_gvas
    pcDetect,       \* "idle" | "input" | "detected" | "inspected"
    \* ---- SpecHints: the process-wide statics of save/hint_registry.rs
    typeHints,      \* PALWORLD_TYPE_HINTS, the built-in seed table
    disabledProps,  \* DISABLED_PROPERTIES
    discoveryFile,  \* the lines of the hint discovery file
    persistedHints, \* PERSISTED_HINTS (OnceLock): None until first loaded
    persistedSet,   \* SET of persisted_hint_set (OnceLock): None until first used
    hintCache,      \* CACHE of hint_cache
    appendCalls,    \* the appends to the discovery file attempted so far
    ioFailAt,       \* the attempt that fails (0: none does)
    \* ---- SpecHints: one call of parse_with_auto_hints
    resolver,       \* "normalize" (save/normalize.rs) | "probe" (bin/save_probe.rs)
    gvasFile,       \* the GVAS stream being parsed
    mirrored_hints, \* the map taken before the loop
    hints,          \* the working hint map
    hint_pass_count,
    hint_count_start,
    parseCalls,     \* how many times the loop called the parser
    lastParse,      \* what the parser returned to the last iteration
    lastLearned,    \* the hint the last iteration learned, if it learned one
    hintProgress,   \* the last progress event of a pass, if any
    hintResult,     \* the Result parse_with_auto_hints returned
    runs,           \* calls of parse_with_auto_hints started in this process
    rerun,          \* this call is given the stream the call before it was given
    linesAtStart,   \* the lines the discovery file had when this call was made
    pcHints,        \* "idle" | "ready" | "parsing" | "done"
    \* ---- SpecAssign: parse_base_assignments (save/normalize.rs)
    base_to_container,
    container_slots,
    assignments,    \* Vec<ExtractedAssignment>
    pcAssign,       \* "idle" | "base_camps" | "containers" | "returned"
    \* ---- SpecWalk: parse_character_map and its caller (save/normalize.rs)
    charMapShape,   \* "missing" | "not_map" | "map"
    total_entries,
    required_assignment_instance_ids,
    processed_entries,
    selected_entries,
    players,        \* Vec<ExtractedPlayer>
    pals,           \* Vec<ExtractedPal>
    lastEntry,      \* the map entry the last iteration went through, if any
    beforeEntry,    \* selected_entries, players.len(), pals.len() before it
    walkProgress,   \* the last NormalizationProgress of the walk, if any
    walkResult,     \* the Result parse_character_map returned
    pcWalk,         \* "idle" | "called" | "entries" | "done"
    \* ---- Spec: one import (api/handlers/import_zip.rs)
    seedFiles,      \* the Players/*.sav files of the archive
    workerPlan,     \* what the Level.sav of the archive makes the worker do
    importRow,      \* the row of save_import_versions
    planner_players,
    planner_pals,
    planner_base_assignments,
    pcTask,         \* "idle" | "request" | "spawned" | "inspecting" |
                    \* "normalizing" | "persist" | "finalize" | "done"
    pcWorker,       \* "none" | "running" | "finished"
    workerSent,     \* the progress events the worker has emitted
    progressQueue,  \* the unbounded channel progress_tx -> progress_rx
    aborted,        \* normalize_worker.abort() was called
    joined,         \* what the select loop got from the worker, if anything
    extracted,      \* Option<NormalizationResult> the loop broke with
    last_processed_report,
    last_progress_pct,
    last_progress_message,
    \* ---- SpecRegistry: calls of the public functions of save/hint_registry.rs
    mergedResult,   \* what the last call of merged_hints_with_cache returned, if any
    lastCall,       \* "none" | "cache" | "merged": the registry function called last
    observedPairs,  \* the (path, type) pairs passed to cache_discovered_hint so far
    callCount,      \* calls of the registry's functions made so far
    \* ---- SpecConcurrent: normalizations of one process running at once
    workers,        \* the normalizations running at once: each one's position and locals
    openLine,       \* the keys written to the discovery file since its last newline
    appendedKeys,   \* the keys written to the discovery file by this process, in order
    loadedLines,    \* the lines the discovery file had when the process started
    \* ---- SpecZip: save/zip.rs and the checks of run_import_zip on the archive
    platform,       \* "unix" | "windows": the target the server was built for
    archive,        \* the names of the entries of the uploaded archive, as indexes of RawNames
    entries,        \* Result<Vec<ZipEntry>> of parse_zip_entries: the sanitized paths
    world_root_path, \* Result<String> of detect_world_root
    rooted_entries, \* the keys of the BTreeMap rooted_entries
    zipRejection,   \* the ApiError run_import_zip returned, if any
    zipPersisted,   \* run_import_zip has written the archive and its rows
    pcZip,          \* "idle" | "request" | "parsed" | "rooted" | "accepted" | "rejected"
    \* ---- raw codecs ----
    raw_bytes,      \* the blob handed to decode_raw or to a codec
    raw_path,       \* the path handed to decode_raw, "" before the call
    raw_result,     \* what decode_raw returned: a status and a value, or an error
    codec,          \* the codec whose decode and encode are called directly
    codec_value,    \* what codec.decode returned
    codec_bytes,    \* what codec.encode returned for that value
    pcCodec,        \* "idle" | "blob" | "dispatched" | "decoded" | "encoded"
    \* ---- functions of one text ----
    fn_input,       \* the text a function is applied to
    fn_once,        \* the function of fn_input
    fn_twice,       \* the function of fn_once
    pcFn,           \* "idle" | "input" | "once" | "twice"
    \* ---- rows of the planner tables ----
    player_rows,    \* the rows of planner_players, without their id: a bag
    pal_rows,       \* the rows of planner_pals
    assignment_rows, \* the rows of planner_base_assignments
    conflicted,     \* the tables in which an insert has met a row of its key
    persistCount,   \* the calls made so far
    \* ---- the loop of run_post_import_processing over the save files ----
    save_files,     \* the rows of save_files of the import, ORDER BY relative_path
    next_file,      \* the row the loop is at
    save_variant_metadata, \* the rows of save_variant_metadata, by relative_path
    level_sav_for_normalize, \* Option: the path of the Level.sav the loop has kept
    inspectedImport, \* the row of save_import_versions
    pcInspect,      \* "idle" | "inspecting" | "normalizing" | "finalize" | "failed"
    \* ---- the progress events of the hint passes and of the character walk ----
    progress_total, \* total_entries of the walk
    progress_processed, \* processed_entries
    progress_passes, \* hint_pass_count
    progress_fate,  \* what the loop did with the last entry, "none" before the first
    progress_event, \* the last NormalizationProgress emitted, if any
    progress_counts, \* the processed counts of the events of the walk, in order
    pcProgress,     \* "idle" | "hints" | "resolved" | "walk" | "returned" | "failed"
    \* ---- one request to run_import_zip, from the multipart form on ----
    multipart,      \* the fields of the multipart form, in order
    zip_content,    \* what the bytes of an uploaded file are as a ZIP archive
    uploaded,       \* Option: the file field the loop has kept (uploaded_name, uploaded_bytes)
    upload_rooted,  \* the keys of rooted_entries once the checks are through
    blob_store,     \* the storage keys written under artifact_storage_root
    import_version_rows, \* the rows of save_import_versions committed
    post_import_spawned, \* spawn_post_import_processing was called
    upload_response, \* Result<ImportZipResponse, ApiError>
    pcUpload        \* "idle" | "request" | "read" | "checked" | "responded"

detectVars == <<bytes, variant, gvas, decoded, pcDetect>>

registryVars == <<typeHints, disabledProps, discoveryFile, persistedHints,
                  persistedSet, hintCache, appendCalls, ioFailAt>>

resolverVars == <<resolver, gvasFile, mirrored_hints, hints, hint_pass_count,
                  hint_count_start, parseCalls, lastParse, lastLearned,
                  hintProgress, hintResult, runs, rerun, linesAtStart,
                  pcHints>>

hintVars == <<registryVars, resolverVars>>

assignVars == <<base_to_container, container_slots, assignments, pcAssign>>

walkVars == <<charMapShape, total_entries, required_assignment_instance_ids,
              processed_entries, selected_entries, players, pals, lastEntry,
              beforeEntry, walkProgress, walkResult, pcWalk>>

importVars == <<seedFiles, workerPlan, importRow, planner_players,
                planner_pals, planner_base_assignments, pcTask, pcWorker,
                workerSent, progressQueue, aborted, joined, extracted,
                last_processed_report, last_progress_pct,
                last_progress_message>>

callVars == <<mergedResult, lastCall, observedPairs, callCount>>

concVars == <<workers, openLine, appendedKeys, loadedLines>>

zipVars == <<platform, archive, entries, world_root_path, rooted_entries,
             zipRejection, zipPersisted, pcZip>>

codecVars == <<raw_bytes, raw_path, raw_result, codec, codec_value,
               codec_bytes, pcCodec>>

fnVars == <<fn_input, fn_once, fn_twice, pcFn>>

rowVars == <<player_rows, pal_rows, assignment_rows, conflicted,
             persistCount>>

inspectVars == <<save_files, next_file, save_variant_metadata,
                 level_sav_for_normalize, inspectedImport, pcInspect>>

progressVars == <<progress_total, progress_processed, progress_passes,
                  progress_fate, progress_event, progress_counts, pcProgress>>

uploadVars == <<multipart, zip_content, uploaded, upload_rooted, blob_store,
                import_version_rows, post_import_spawned, upload_response,
                pcUpload>>

vars == <<detectVars, hintVars, assignVars, walkVars, importVars, callVars,
          concVars, zipVars, codecVars, fnVars, rowVars, inspectVars,
          progressVars, uploadVars>>

\* What the steps of one part leave alone: the variables of the other parts.
exceptDetect == <<hintVars, assignVars, walkVars, importVars, callVars,
                  concVars, zipVars, codecVars, fnVars, rowVars, inspectVars,
                  progressVars, uploadVars>>
exceptHints == <<detectVars, assignVars, walkVars, importVars, callVars,
                 concVars, zipVars, codecVars, fnVars, rowVars, inspectVars,
                 progressVars, uploadVars>>
exceptAssign == <<detectVars, hintVars, walkVars, importVars, callVars,
                  concVars, zipVars, codecVars, fnVars, rowVars, inspectVars,
                  progressVars, uploadVars>>
exceptWalk == <<detectVars, hintVars, assignVars, importVars, callVars,
                concVars, zipVars, codecVars, fnVars, rowVars, inspectVars,
                progressVars, uploadVars>>
exceptImport == <<detectVars, hintVars, assignVars, walkVars, callVars,
                  concVars, zipVars, codecVars, fnVars, rowVars, inspectVars,
                  progressVars, uploadVars>>
exceptRegistry == <<detectVars, resolverVars, assignVars, walkVars,
                    importVars, concVars, zipVars, codecVars, fnVars, rowVars,
                    inspectVars, progressVars, uploadVars>>
exceptConcurrent == <<detectVars, resolverVars, assignVars, walkVars,
                      importVars, callVars, zipVars, codecVars, fnVars,
                      rowVars, inspectVars, progressVars, uploadVars>>
exceptZip == <<detectVars, hintVars, assignVars, walkVars, importVars,
               callVars, concVars, codecVars, fnVars, rowVars, inspectVars,
               progressVars, uploadVars>>
exceptCodec == <<detectVars, hintVars, assignVars, walkVars, importVars,
                 callVars, concVars, zipVars, fnVars, rowVars, inspectVars,
                 progressVars, uploadVars>>
exceptFn == <<detectVars, hintVars, assignVars, walkVars, importVars,
              callVars, concVars, zipVars, codecVars, rowVars, inspectVars,
              progressVars, uploadVars>>
exceptRow == <<detectVars, hintVars, assignVars, walkVars, importVars,
               callVars, concVars, zipVars, codecVars, fnVars, inspectVars,
               progressVars, uploadVars>>
exceptInspect == <<detectVars, hintVars, assignVars, walkVars, importVars,
                   callVars, concVars, zipVars, codecVars, fnVars, rowVars,
                   progressVars, uploadVars>>
exceptProgress == <<detectVars, hintVars, assignVars, walkVars, importVars,
                    callVars, concVars, zipVars, codecVars, fnVars, rowVars,
                    inspectVars, uploadVars>>
exceptUpload == <<detectVars, hintVars, assignVars, walkVars, importVars,
                  callVars, concVars, zipVars, codecVars, fnVars, rowVars,
                  inspectVars, progressVars>>

\* Option<T>: None is the empty sequence, Some(x) the one-element sequence.
None == <<>>
Some(x) == <<x>>
IsSome(o) == o # <<>>
Unwrap(o) == o[1]

Min(a, b) == IF a <= b THEN a ELSE b
Max(a, b) == IF a >= b THEN a ELSE b

\* i32::clamp / usize::clamp
Clamp(x, lo, hi) == IF x < lo THEN lo ELSE IF x > hi THEN hi ELSE x

\* Result<T, String>
Ok(v) == [ok |-> TRUE, val |-> v]
Err(e) == [ok |-> FALSE, err |-> e]

\* The empty map (HashMap::new()).
EmptyMap == [p \in {} |-> ""]

(***************************************************************************)
(* The idle values: what a part's variables hold while another part runs.  *)
(***************************************************************************)
NoVariant == [compression |-> "none"]
NoGvas == [decode_status |-> "none"]
NoResult == [ok |-> FALSE, err |-> "none"]
NoFile == [needs |-> 0, stuckAt |-> 0, bad |-> FALSE]

DetectIdle ==
    /\ bytes = [len |-> 0] /\ variant = NoVariant /\ gvas = NoGvas
    /\ decoded = NoResult /\ pcDetect = "idle"

ResolverIdle ==
    /\ resolver = "none" /\ gvasFile = NoFile /\ mirrored_hints = EmptyMap
    /\ hints = EmptyMap /\ hint_pass_count = 0 /\ hint_count_start = 0
    /\ parseCalls = 0 /\ lastParse = [kind |-> "none"] /\ lastLearned = None
    /\ hintProgress = None /\ hintResult = NoResult /\ runs = 0
    /\ rerun = FALSE /\ linesAtStart = 0
    /\ pcHints = "idle"

HintsIdle ==
    /\ typeHints = EmptyMap /\ disabledProps = {} /\ discoveryFile = <<>>
    /\ persistedHints = None /\ persistedSet = None /\ hintCache = EmptyMap
    /\ appendCalls = 0 /\ ioFailAt = 0
    /\ ResolverIdle

CallsIdle ==
    /\ mergedResult = None /\ lastCall = "none" /\ observedPairs = {}
    /\ callCount = 0

WorkersIdle ==
    /\ workers = <<>> /\ openLine = <<>> /\ appendedKeys = <<>> /\ loadedLines = 0

ZipIdle ==
    /\ platform = "unix" /\ archive = {} /\ entries = NoResult
    /\ world_root_path = NoResult /\ rooted_entries = {}
    /\ zipRejection = None /\ zipPersisted = FALSE /\ pcZip = "idle"

CodecIdle ==
    /\ raw_bytes = <<>> /\ raw_path = "" /\ raw_result = NoResult /\ codec = ""
    /\ codec_value = NoResult /\ codec_bytes = NoResult /\ pcCodec = "idle"

FnIdle == fn_input = <<>> /\ fn_once = <<>> /\ fn_twice = <<>> /\ pcFn = "idle"

RowsIdle ==
    /\ player_rows = EmptyBag /\ pal_rows = EmptyBag /\ assignment_rows = EmptyBag
    /\ conflicted = {} /\ persistCount = 0

AssignIdle ==
    /\ base_to_container = EmptyMap /\ container_slots = EmptyMap
    /\ assignments = <<>> /\ pcAssign = "idle"

WalkIdle ==
    /\ charMapShape = "map" /\ total_entries = 0
    /\ required_assignment_instance_ids = {}
    /\ processed_entries = 0 /\ selected_entries = 0
    /\ players = <<>> /\ pals = <<>>
    /\ lastEntry = None /\ beforeEntry = <<0, 0, 0>>
    /\ walkProgress = None /\ walkResult = NoResult /\ pcWalk = "idle"

NoPlan == [outcome |-> "none"]
NoRow == [status |-> "none"]

ImportIdle ==
    /\ seedFiles = {} /\ workerPlan = NoPlan /\ importRow = NoRow
    /\ planner_players = EmptyMap /\ planner_pals = EmptyMap
    /\ planner_base_assignments = EmptyMap
    /\ pcTask = "idle" /\ pcWorker = "none" /\ workerSent = 0
    /\ progressQueue = <<>> /\ aborted = FALSE /\ joined = "none"
    /\ extracted = None /\ last_processed_report = None
    /\ last_progress_pct = None /\ last_progress_message = None

InspectIdle ==
    /\ save_files = <<>> /\ next_file = 1 /\ save_variant_metadata = EmptyMap
    /\ level_sav_for_normalize = None /\ inspectedImport = NoRow
    /\ pcInspect = "idle"

UploadIdle ==
    /\ multipart = <<>> /\ zip_content = [readable |-> TRUE, names |-> {}]
    /\ uploaded = None /\ upload_rooted = {} /\ blob_store = {}
    /\ import_version_rows = <<>> /\ post_import_spawned = FALSE
    /\ upload_response = NoResult /\ pcUpload = "idle"

ProgressIdle ==
    /\ progress_total = 0 /\ progress_processed = 0 /\ progress_passes = 0
    /\ progress_fate = "none" /\ progress_event = None /\ progress_counts = <<>>
    /\ pcProgress = "idle"

(***************************************************************************)
(* save/detect.rs and save/parse.rs                                        *)
(***************************************************************************)

\* The longest byte slice of the model.
MaxFileLen == 26

\* The header length: uncompressed_size, compressed_size, magic, save_type.
HeaderLen == 12

\* The values drawn for the two u32 counters of a header; 2147483647 stands
\* for every compressed_size larger than the slice (TLC's integers end
\* there, and min() treats all such values alike).
CompressedSizes == {0, 1, 3, 2147483647}
UncompressedSizes == {4, 8}

\* What the decompressors make of a payload: the model does not hold the
\* payload's bytes, so the outcome of each pass is an input.  `len` is the
\* length of the decompressed stream (for oodle: the bytes written) and
\* `head` its first four bytes.
CodecOutcomes ==
    [first : {"ok", "err"}, second : {"ok", "err"}, len : {3, 4, 8},
     head : {"GVAS", "other"}]

\* A byte slice, by what detect_save_variant reads of it: its length,
\* whether it starts with CNK, and the header fields at header_offset
\* (meaningful only when the slice is long enough to hold them).
ByteSlices ==
    [len : 0..MaxFileLen, cnk : BOOLEAN, magic : {"PlZ", "PlM", "Oth"},
     save_type : {49, 50, 0}, compressed_size : CompressedSizes,
     uncompressed_size : UncompressedSizes, codec : CodecOutcomes]

\* bytes.starts_with(b"CNK") needs three bytes.
WellFormedSlice(b) == b.cnk => b.len >= 3

detect_save_variant(b) ==
    IF b.len < HeaderLen
    THEN [has_cnk_prefix |-> FALSE, magic |-> None, save_type |-> None,
          compression |-> "unknown", uncompressed_size |-> None,
          compressed_size |-> None, payload_offset |-> 0, payload_len |-> 0]
    ELSE LET has_cnk_prefix == b.cnk
             header_offset == IF has_cnk_prefix THEN 12 ELSE 0
             payload_offset == IF has_cnk_prefix THEN 24 ELSE 12
         IN  IF b.len < header_offset + HeaderLen
             THEN [has_cnk_prefix |-> has_cnk_prefix, magic |-> None,
                   save_type |-> None, compression |-> "unknown",
                   uncompressed_size |-> None, compressed_size |-> None,
                   payload_offset |-> payload_offset, payload_len |-> 0]
             ELSE LET compression ==
                          IF b.magic = "PlZ" /\ b.save_type = 50 THEN "zlib"
                          ELSE IF b.magic = "PlM" /\ b.save_type = 49 THEN "oodle"
                          ELSE "unknown"
                      \* bytes.len().saturating_sub(payload_offset)
                      available_payload == Max(b.len - payload_offset, 0)
                      requested_payload == b.compressed_size
                      payload_len == IF requested_payload = 0
                                     THEN available_payload
                                     ELSE Min(requested_payload, available_payload)
                  IN  [has_cnk_prefix |-> has_cnk_prefix, magic |-> Some(b.magic),
                       save_type |-> Some(b.save_type), compression |-> compression,
                       uncompressed_size |-> Some(b.uncompressed_size),
                       compressed_size |-> Some(b.compressed_size),
                       payload_offset |-> payload_offset, payload_len |-> payload_len]

\* The payload is returned as its bounds: the model holds no bytes.
payload_slice(b, v) ==
    LET payload_start == v.payload_offset
        payload_end == payload_start + v.payload_len
    IN  IF payload_end > b.len \/ payload_start >= payload_end
        THEN Err("payload boundaries are invalid")
        ELSE Ok(<<payload_start, payload_end>>)

decode_plz(b, v) ==
    IF b.codec.first = "err" THEN Err("zlib decode failed")
    ELSE IF v.save_type = Some(50) /\ b.codec.second = "err"
    THEN Err("zlib second-pass decode failed")
    ELSE IF IsSome(v.uncompressed_size) /\ b.codec.len # Unwrap(v.uncompressed_size)
    THEN Err("decoded size mismatch")
    ELSE Ok([len |-> b.codec.len, head |-> b.codec.head])

decode_plm(b, v) ==
    IF ~IsSome(v.uncompressed_size)
    THEN Err("oodle decode requires uncompressed_size from save header")
    ELSE IF b.codec.first = "err" THEN Err("oodle decode failed")
    ELSE IF b.codec.len # Unwrap(v.uncompressed_size)
    THEN Err("oodle decoded byte count mismatch")
    ELSE Ok([len |-> Unwrap(v.uncompressed_size), head |-> b.codec.head])

decode_to_gvas_compression_first(b, v) ==
    IF v.compression \notin {"zlib", "oodle"} THEN Err("decode_not_attempted")
    ELSE LET payload == payload_slice(b, v)
         IN  IF ~payload.ok THEN payload
             ELSE IF v.compression = "zlib" THEN decode_plz(b, v)
             ELSE decode_plm(b, v)

decode_to_gvas(b, v) ==
    LET payload == payload_slice(b, v)
    IN  IF ~payload.ok THEN payload
        ELSE IF v.compression = "zlib" THEN decode_plz(b, v)
        ELSE IF v.compression = "oodle" THEN decode_plm(b, v)
        ELSE Err("decode_not_attempted")

inspect_gvas(b, v) ==
    LET r == decode_to_gvas(b, v)
    IN  IF r.ok
        THEN [decode_status |-> "ok", decode_error |-> None,
              decompressed_size |-> Some(r.val.len),
              gvas_magic |-> IF r.val.len >= 4
                             THEN (IF r.val.head = "GVAS" THEN Some("GVAS")
                                   ELSE Some("hex"))
                             ELSE None]
        ELSE IF r.err = "decode_not_attempted"
        THEN [decode_status |-> "not_attempted", decode_error |-> None,
              decompressed_size |-> None, gvas_magic |-> None]
        ELSE [decode_status |-> "error", decode_error |-> Some(r.err),
              decompressed_size |-> None, gvas_magic |-> None]

InitDetect ==
    /\ HintsIdle /\ AssignIdle /\ WalkIdle /\ ImportIdle
    /\ CallsIdle /\ WorkersIdle /\ ZipIdle /\ CodecIdle /\ FnIdle
    /\ RowsIdle
    /\ InspectIdle
    /\ ProgressIdle
    /\ UploadIdle
    /\ bytes \in {b \in ByteSlices : WellFormedSlice(b)}
    /\ variant = NoVariant
    /\ gvas = NoGvas
    /\ decoded = NoResult
    /\ pcDetect = "input"

\* let variant = detect_save_variant(&bytes_for_inspect);
DetectVariant ==
    /\ pcDetect = "input"
    /\ variant' = detect_save_variant(bytes)
    /\ pcDetect' = "detected"
    /\ UNCHANGED <<bytes, gvas, decoded>>
    /\ UNCHANGED exceptDetect

\* let gvas = inspect_gvas(&bytes_for_inspect, &variant);
InspectGvas ==
    /\ pcDetect = "detected"
    /\ decoded' = decode_to_gvas(bytes, variant)
    /\ gvas' = inspect_gvas(bytes, variant)
    /\ pcDetect' = "inspected"
    /\ UNCHANGED <<bytes, variant>>
    /\ UNCHANGED exceptDetect

NextDetect ==
    \/ DetectVariant
    \/ InspectGvas

SpecDetect == InitDetect /\ [][NextDetect]_vars

\* C3: for every byte slice, the descriptor detect_save_variant returns has
\* payload_offset + payload_len <= len(bytes).
C3_PayloadWithinBytes ==
    pcDetect \in {"detected", "inspected"}
        => variant.payload_offset + variant.payload_len <= bytes.len

\* C4 as stated: every file whose descriptor has compression "unknown" gets
\* the sentinel decode_not_attempted from decode_to_gvas and decode_status
\* "not_attempted" from inspect_gvas, never "error".
C4_UnknownNeverError ==
    (pcDetect = "inspected" /\ variant.compression = "unknown")
        => /\ decoded = Err("decode_not_attempted")
           /\ gvas.decode_status = "not_attempted"

\* C4 amended: a descriptor with compression "unknown" gets the sentinel
\* and "not_attempted" exactly when its payload is non-empty and inside the
\* slice; with an empty or out-of-bounds payload (every slice shorter than
\* 12 bytes among them) decode_to_gvas returns "payload boundaries are
\* invalid" and inspect_gvas reports decode_status "error" with that text.
C4_UnknownSentinelOnlyWithPayload ==
    (pcDetect = "inspected" /\ variant.compression = "unknown")
        => IF /\ variant.payload_len > 0
              /\ variant.payload_offset + variant.payload_len <= bytes.len
           THEN /\ decoded = Err("decode_not_attempted")
                /\ gvas.decode_status = "not_attempted"
                /\ gvas.decode_error = None
           ELSE /\ decoded = Err("payload boundaries are invalid")
                /\ gvas.decode_status = "error"
                /\ gvas.decode_error = Some("payload boundaries are invalid")

\* A slice with an unknown wrapper and a payload was inspected.
C4_Witness ==
    /\ pcDetect = "inspected"
    /\ variant.compression = "unknown"
    /\ variant.payload_len > 0
    /\ gvas.decode_status = "not_attempted"

(***************************************************************************)
(* save/hint_registry.rs                                                   *)
(*                                                                         *)
(* A structural path is the sequence of its dot-separated segments: the    *)
(* string "a.b" is <<"a", "b">>, a leading dot is an empty first segment   *)
(* and the empty string is <<"">>.                                         *)
(***************************************************************************)

EmptyPath == <<"">>

\* path.strip_prefix('.').unwrap_or(path)
normalize_hint_path(path) ==
    IF Len(path) >= 2 /\ path[1] = "" THEN Tail(path) ELSE path

\* HashMap::insert and HashMap::extend: the later value wins.
Insert(m, k, v) == (k :> v) @@ m
Extend(m, o) == o @@ m

\* PALWORLD_TYPE_HINTS with its paths normalized, without the entries whose
\* path is one of DISABLED_PROPERTIES.
mirrored_hint_map ==
    LET disabled == {normalize_hint_path(d) : d \in disabledProps}
        keys == {normalize_hint_path(q) : q \in DOMAIN typeHints} \ disabled
    IN  [p \in keys |->
            typeHints[CHOOSE q \in DOMAIN typeHints : normalize_hint_path(q) = p]]

\* A line of the discovery file: a comment (or blank) line, or "path|ty".
DiscoveryLine(path, ty) == [comment |-> FALSE, path |-> path, ty |-> ty]
CommentLine == [comment |-> TRUE, path |-> EmptyPath, ty |-> ""]

\* The loop of load_persisted_hints over the lines of the file.
RECURSIVE ParseDiscoveryLines(_, _)
ParseDiscoveryLines(lines, acc) ==
    IF lines = <<>> THEN acc
    ELSE LET line == Head(lines)
             path == normalize_hint_path(line.path)
         IN  ParseDiscoveryLines(
                 Tail(lines),
                 IF line.comment \/ path = EmptyPath \/ line.ty = ""
                 THEN acc
                 ELSE Insert(acc, path, line.ty))

\* PERSISTED_HINTS.get_or_init(..): the file is read by the first call only.
load_persisted_hints ==
    IF persistedHints = None
    THEN ParseDiscoveryLines(discoveryFile, EmptyMap)
    ELSE Unwrap(persistedHints)

\* merged_hints_with_cache with the seed table applied last.
merged_hints_seed_last ==
    Extend(Extend(hintCache, load_persisted_hints), mirrored_hint_map)

merged_hints_with_cache ==
    Extend(Extend(mirrored_hint_map, load_persisted_hints), hintCache)

\* SET.get_or_init(..): the keys "path|ty" of the persisted hints.
persisted_hint_set ==
    IF persistedSet = None
    THEN {<<p, load_persisted_hints[p]>> : p \in DOMAIN load_persisted_hints}
    ELSE Unwrap(persistedSet)

\* set.insert(key.clone()) under the mutex of the seen set: whether the key is
\* new to the set.
seen_set_insert_unguarded(set, key) == TRUE

seen_set_insert(set, key) == key \notin set

\* cache_discovered_hint without the append to the discovery file.
cache_discovered_hint_without_append(path, ty) ==
    LET normalized_path == normalize_hint_path(path)
        key == <<normalized_path, ty>>
        set == persisted_hint_set
        fresh == seen_set_insert(set, key)
    IN  /\ hintCache' = Insert(hintCache, normalized_path, ty)
        /\ persistedHints' = Some(load_persisted_hints)
        /\ persistedSet' = Some(set \cup {key})
        /\ appendCalls' = IF fresh THEN appendCalls + 1 ELSE appendCalls
        /\ discoveryFile' = discoveryFile
        /\ UNCHANGED <<typeHints, disabledProps, ioFailAt>>

\* cache_discovered_hint(path, ty), persist_discovered_hint included: the
\* cache entry, the seen set, and the append unless the pair was seen.  An
\* append that fails (create_dir_all, open or writeln!) is logged only.
cache_discovered_hint(path, ty) ==
    LET normalized_path == normalize_hint_path(path)
        key == <<normalized_path, ty>>
        set == persisted_hint_set
        fresh == seen_set_insert(set, key)
        fails == appendCalls + 1 = ioFailAt
    IN  /\ hintCache' = Insert(hintCache, normalized_path, ty)
        /\ persistedHints' = Some(load_persisted_hints)
        /\ persistedSet' = Some(set \cup {key})
        /\ appendCalls' = IF fresh THEN appendCalls + 1 ELSE appendCalls
        /\ discoveryFile' = IF fresh /\ ~fails
                            THEN Append(discoveryFile, DiscoveryLine(normalized_path, ty))
                            ELSE discoveryFile
        /\ UNCHANGED <<typeHints, disabledProps, ioFailAt>>

(***************************************************************************)
(* parse_with_auto_hints (save/normalize.rs, bin/save_probe.rs)            *)
(***************************************************************************)

MAX_FALLBACK_PASSES == 64

\* for _ in 0..512
ProbePasses == 512

SentinelSegments == {"StructProperty", "MapProperty", "ArrayProperty", "SetProperty"}

\* The filter of simplify_hint_path with SetProperty left out.
IsKeptSegment_without_set(segment) ==
    segment \notin {"StructProperty", "MapProperty", "ArrayProperty"}

IsKeptSegment(segment) == segment \notin SentinelSegments

\* path.split('.').filter(..).collect().join("."): joining no segment gives
\* the empty string.
simplify_hint_path(path) ==
    LET kept == SelectSeq(path, IsKeptSegment)
    IN  IF kept = <<>> THEN EmptyPath ELSE kept

\* The GVAS stream, by what the parser makes of it: its `needs` containers
\* whose element type the stream does not give, in the order the parser
\* meets them; container i is at PathOf(i) and the parser reports KindOf(i)
\* for it.  `stuckAt` names a container the parser reports as missing its
\* hint whatever the map holds (0: none); `bad` a stream that fails for
\* another reason once every hint is there.
Name(i) == "k" \o ToString(i)

PathOf(i) ==
    CASE i % 4 = 1 -> <<"worldSaveData", Name(i), "MapProperty", "Value">>
      [] i % 4 = 2 -> <<"worldSaveData", Name(i), "Value">>
      [] i % 4 = 3 -> <<"worldSaveData", Name(i - 1), "StructProperty", "Value">>
      [] OTHER     -> <<"worldSaveData", Name(i), "ArrayProperty", "SetProperty">>

KindOf(i) ==
    CASE i % 3 = 0 -> "Guid"
      [] i % 3 = 1 -> "StructProperty"
      [] OTHER     -> "IntProperty"

\* gvas::GvasFile::read_with_hints(&mut reader, GameVersion::Default, &hints)
read_with_hints(f, h) ==
    LET known == DOMAIN h
        missing == {i \in 1..f.needs : i = f.stuckAt \/ PathOf(i) \notin known}
    IN  IF missing # {}
        THEN LET i == CHOOSE i \in missing : \A j \in missing : i <= j
             IN  [kind |-> "MissingHint", hint |-> KindOf(i), path |-> PathOf(i)]
        ELSE IF f.bad THEN [kind |-> "Other"]
        ELSE [kind |-> "Ok"]

\* What one iteration of the loop of normalize.rs does with the parser's
\* answer r, given the working map h and the passes made so far.
hint_loop_arm_stuck_first(r, h, passes) ==
    IF r.kind = "Ok" THEN "return_ok"
    ELSE IF r.kind = "MissingHint"
    THEN (IF r.path \in DOMAIN h THEN "return_missing_hint"
          ELSE IF passes >= MAX_FALLBACK_PASSES THEN "return_limit"
          ELSE "learn")
    ELSE "return_error"

hint_loop_arm_off_by_one(r, h, passes) ==
    IF r.kind = "Ok" THEN "return_ok"
    ELSE IF r.kind = "MissingHint"
    THEN (IF passes > MAX_FALLBACK_PASSES THEN "return_limit"
          ELSE IF r.path \in DOMAIN h THEN "return_missing_hint"
          ELSE "learn")
    ELSE "return_error"

hint_loop_arm(r, h, passes) ==
    IF r.kind = "Ok" THEN "return_ok"
    ELSE IF r.kind = "MissingHint"
    THEN (IF passes >= MAX_FALLBACK_PASSES THEN "return_limit"
          ELSE IF r.path \in DOMAIN h THEN "return_missing_hint"
          ELSE "learn")
    ELSE "return_error"

\* mirrored_hints.get(&simplified).cloned().unwrap_or_else(|| kind.to_string())
inferred_hint(mirrored, path, kind) ==
    LET simplified == simplify_hint_path(path)
    IN  IF simplified \in DOMAIN mirrored THEN mirrored[simplified] ELSE kind

\* make_stage_progress(progress_pct_hint, message)
make_stage_progress(progress_pct_hint, message) ==
    [progress_pct_hint |-> Some(Clamp(progress_pct_hint, 75, 98)),
     message |-> message,
     total_character_entries |-> 0,
     processed_character_entries |-> 0,
     selected_character_entries |-> 0,
     player_count |-> 0,
     pal_count |-> 0]

\* The percentage of a pass with 12 in place of 11.
hint_pass_progress_by_twelve(passes) ==
    make_stage_progress(Clamp(78 + ((passes * 12) \div MAX_FALLBACK_PASSES), 78, 89),
                        <<"Fallback hint resolution pass", passes>>)

\* let pct = 78 + ((hint_pass_count as i32 * 11) / MAX_FALLBACK_PASSES as i32);
hint_pass_progress(passes) ==
    make_stage_progress(Clamp(78 + ((passes * 11) \div MAX_FALLBACK_PASSES), 78, 89),
                        <<"Fallback hint resolution pass", passes>>)

\* The errors of parse_with_auto_hints.
ResolutionLimit == Err([kind |-> "ResolutionLimit"])
MissingHintError(r) == Err([kind |-> "MissingHint", hint |-> r.hint, path |-> r.path])
OtherError == Err([kind |-> "Other"])

\* The largest number of unhinted containers drawn besides the numbers next
\* to the two pass limits.
MaxNeeds == 3

\* The latest append to the discovery file that may be made to fail.
MaxIoFailAt == 2

\* The calls of parse_with_auto_hints one process makes.
MaxRuns == 2

NeedCounts(limit) == (0..MaxNeeds) \cup {limit - 1, limit, limit + 1}

GvasFiles(limit) ==
    {f \in [needs : NeedCounts(limit), stuckAt : 0..(limit + 1), bad : BOOLEAN] :
        /\ f.stuckAt \in {0, 1, f.needs}
        /\ f.bad => f.needs <= MaxNeeds}

\* The streams of a later call.
LaterFiles ==
    {[needs |-> n, stuckAt |-> 0, bad |-> FALSE] : n \in {1, MaxNeeds}}

\* The seed tables drawn: none, or one with two entries; the server's table
\* is keyed with leading dots, the probe's without.
SeedTables(dot) ==
    {EmptyMap,
     (dot \o <<"worldSaveData", Name(1), "Value">> :> "Guid")
        @@ (dot \o <<"worldSaveData", Name(2), "Value">> :> "StructProperty")}

DisabledSets == {{}, {<<"", "worldSaveData", Name(1), "Value">>}}

DiscoveryFiles ==
    {<<>>,
     <<DiscoveryLine(<<"worldSaveData", Name(1), "Value">>, "IntProperty")>>,
     <<CommentLine, DiscoveryLine(PathOf(1), "StructProperty")>>}

InitHints ==
    /\ DetectIdle /\ AssignIdle /\ WalkIdle /\ ImportIdle
    /\ CallsIdle /\ WorkersIdle /\ ZipIdle /\ CodecIdle /\ FnIdle
    /\ RowsIdle
    /\ InspectIdle
    /\ ProgressIdle
    /\ UploadIdle
    /\ resolver \in {"normalize", "probe"}
    /\ gvasFile \in GvasFiles(IF resolver = "normalize" THEN MAX_FALLBACK_PASSES
                              ELSE ProbePasses)
    /\ typeHints \in SeedTables(IF resolver = "normalize" THEN <<"">> ELSE <<>>)
    /\ disabledProps \in (IF resolver = "normalize" THEN DisabledSets ELSE {{}})
    /\ discoveryFile \in (IF resolver = "normalize" THEN DiscoveryFiles ELSE {<<>>})
    /\ ioFailAt \in (IF resolver = "normalize" THEN 0..MaxIoFailAt ELSE {0})
    /\ persistedHints = None /\ persistedSet = None /\ hintCache = EmptyMap
    /\ appendCalls = 0
    /\ mirrored_hints = EmptyMap /\ hints = EmptyMap
    /\ hint_pass_count = 0 /\ hint_count_start = 0 /\ parseCalls = 0
    /\ lastParse = [kind |-> "none"] /\ lastLearned = None
    /\ hintProgress = None /\ hintResult = NoResult
    /\ runs = 0
    /\ rerun = FALSE /\ linesAtStart = Len(discoveryFile)
    /\ pcHints = "ready"

\* normalize.rs: parse_with_auto_hints up to its loop.
StartResolve ==
    /\ pcHints = "ready" /\ resolver = "normalize"
    /\ UNCHANGED exceptHints
    /\ mirrored_hints' = merged_hints_with_cache
    /\ hints' = merged_hints_with_cache
    /\ hint_count_start' = Cardinality(DOMAIN merged_hints_with_cache)
    /\ hint_pass_count' = 0
    /\ persistedHints' = Some(load_persisted_hints)
    /\ runs' = runs + 1
    /\ pcHints' = "parsing"
    /\ UNCHANGED <<typeHints, disabledProps, discoveryFile, persistedSet, hintCache,
                   appendCalls, ioFailAt, resolver, gvasFile, parseCalls, lastParse,
                   lastLearned, hintProgress, hintResult, rerun, linesAtStart>>

Returns(result) ==
    /\ hintResult' = result
    /\ pcHints' = "done"
    /\ UNCHANGED <<registryVars, mirrored_hints, hints, hint_pass_count,
                   hint_count_start, lastLearned, hintProgress>>

\* normalize.rs: one iteration of the loop of parse_with_auto_hints.
ResolvePass ==
    /\ pcHints = "parsing" /\ resolver = "normalize"
    /\ UNCHANGED exceptHints
    /\ LET r == read_with_hints(gvasFile, hints)
           arm == hint_loop_arm(r, hints, hint_pass_count)
       IN  /\ lastParse' = r
           /\ parseCalls' = parseCalls + 1
           /\ UNCHANGED <<resolver, gvasFile, runs, rerun, linesAtStart>>
           /\ CASE arm = "return_ok" ->
                     Returns(Ok([hint_pass_count |-> hint_pass_count,
                                 hint_count_start |-> hint_count_start,
                                 hint_count_end |-> Cardinality(DOMAIN hints)]))
                [] arm = "return_limit" -> Returns(ResolutionLimit)
                [] arm = "return_missing_hint" -> Returns(MissingHintError(r))
                [] arm = "return_error" -> Returns(OtherError)
                [] arm = "learn" ->
                     LET inferred == inferred_hint(mirrored_hints, r.path, r.hint)
                     IN  /\ hints' = Insert(hints, r.path, inferred)
                         /\ cache_discovered_hint(r.path, inferred)
                         /\ hint_pass_count' = hint_pass_count + 1
                         /\ hintProgress' = Some(hint_pass_progress(hint_pass_count + 1))
                         /\ lastLearned' = Some([path |-> r.path, hint |-> r.hint,
                                                 ty |-> inferred])
                         /\ UNCHANGED <<mirrored_hints, hint_count_start, hintResult,
                                        pcHints>>

\* save_probe.rs: parse_with_auto_hints up to its loop; simple_hints is the
\* probe's own table, taken as it is.
ProbeStart ==
    /\ pcHints = "ready" /\ resolver = "probe"
    /\ UNCHANGED exceptHints
    /\ mirrored_hints' = typeHints
    /\ hints' = typeHints
    /\ hint_count_start' = Cardinality(DOMAIN typeHints)
    /\ hint_pass_count' = 0
    /\ runs' = runs + 1
    /\ pcHints' = "parsing"
    /\ UNCHANGED <<registryVars, resolver, gvasFile, parseCalls, lastParse,
                   lastLearned, hintProgress, hintResult, rerun, linesAtStart>>

\* save_probe.rs: one of the 512 iterations.
ProbePass ==
    /\ pcHints = "parsing" /\ resolver = "probe"
    /\ UNCHANGED exceptHints
    /\ parseCalls < ProbePasses
    /\ LET r == read_with_hints(gvasFile, hints)
       IN  /\ lastParse' = r
           /\ parseCalls' = parseCalls + 1
           /\ UNCHANGED <<resolver, gvasFile, runs, rerun, linesAtStart>>
           /\ CASE r.kind = "Ok" ->
                     Returns(Ok([hint_pass_count |-> hint_pass_count,
                                 hint_count_start |-> hint_count_start,
                                 hint_count_end |-> Cardinality(DOMAIN hints)]))
                [] r.kind = "MissingHint" /\ r.path \in DOMAIN hints ->
                     Returns(MissingHintError(r))
                [] r.kind = "MissingHint" /\ r.path \notin DOMAIN hints ->
                     LET inferred == inferred_hint(mirrored_hints, r.path, r.hint)
                     IN  /\ hints' = Insert(hints, r.path, inferred)
                         /\ hint_pass_count' = hint_pass_count + 1
                         /\ lastLearned' = Some([path |-> r.path, hint |-> r.hint,
                                                 ty |-> inferred])
                         /\ UNCHANGED <<registryVars, mirrored_hints, hint_count_start,
                                        hintProgress, hintResult, pcHints>>
                [] OTHER -> Returns(OtherError)

\* save_probe.rs: bail!("exceeded missing-hint expansion limit ..") after
\* the loop.
ProbeBail ==
    /\ pcHints = "parsing" /\ resolver = "probe"
    /\ UNCHANGED exceptHints
    /\ parseCalls >= ProbePasses
    /\ Returns(ResolutionLimit)
    /\ UNCHANGED <<resolver, gvasFile, parseCalls, lastParse, runs, rerun,
                   linesAtStart>>

\* The same process normalizes another stream, or the same stream again.
ResolveAgain ==
    /\ pcHints = "done" /\ resolver = "normalize"
    /\ UNCHANGED exceptHints
    /\ runs < MaxRuns
    /\ gvasFile' \in LaterFiles \cup {gvasFile}
    /\ rerun' = (gvasFile' = gvasFile)
    /\ linesAtStart' = Len(discoveryFile)
    /\ mirrored_hints' = EmptyMap /\ hints' = EmptyMap
    /\ hint_pass_count' = 0 /\ hint_count_start' = 0 /\ parseCalls' = 0
    /\ lastParse' = [kind |-> "none"] /\ lastLearned' = None
    /\ hintProgress' = None /\ hintResult' = NoResult
    /\ pcHints' = "ready"
    /\ UNCHANGED <<registryVars, resolver, runs>>

NextHints ==
    \/ StartResolve
    \/ ResolvePass
    \/ ProbeStart
    \/ ProbePass
    \/ ProbeBail
    \/ ResolveAgain

SpecHints == InitHints /\ [][NextHints]_vars

\* The bound on the passes of the resolver at work.
PassLimit == IF resolver = "probe" THEN ProbePasses ELSE MAX_FALLBACK_PASSES

\* The answer of the parser the pass about to run will get.
NextAnswer == read_with_hints(gvasFile, hints)

\* A pass is about to run and the parser will report a missing hint for a
\* path that is already a key of the working map.
StuckPass ==
    /\ pcHints = "parsing"
    /\ resolver = "probe" => parseCalls < ProbePasses
    /\ NextAnswer.kind = "MissingHint"
    /\ NextAnswer.path \in DOMAIN hints

\* C8: the resolver makes at most 64 hint-learning passes in normalization
\* and 512 in the probe, calls the parser at most once more than that (the
\* probe never more than 512 times), and a run that ends on a missing hint
\* with the bound used up ends with the bounded-resolution error.
C8_BoundedResolution ==
    /\ hint_pass_count <= PassLimit
    /\ parseCalls <= (IF resolver = "probe" THEN ProbePasses ELSE MAX_FALLBACK_PASSES + 1)
    /\ (/\ pcHints = "done"
        /\ lastParse.kind = "MissingHint"
        /\ hint_pass_count = PassLimit) => hintResult = ResolutionLimit
    /\ (pcHints = "parsing" /\ resolver = "normalize") => parseCalls = hint_pass_count

C8_Witness ==
    /\ pcHints = "done"
    /\ resolver = "normalize"
    /\ hint_pass_count = MAX_FALLBACK_PASSES
    /\ lastParse.kind = "MissingHint"
    /\ hintResult = ResolutionLimit

SeedTable == IF resolver = "probe" THEN typeHints ELSE mirrored_hint_map

\* C10: the type of the hint learned last is the seed table's value for the
\* simplified path when the seed table has it, and otherwise the kind the
\* parser reported.
C10_InferredFromSeedOrKind ==
    lastLearned # None =>
        LET learned == Unwrap(lastLearned)
            simplified == simplify_hint_path(learned.path)
        IN  learned.ty = (IF simplified \in DOMAIN SeedTable
                          THEN SeedTable[simplified]
                          ELSE learned.hint)

\* C11: a call of parse_with_auto_hints given the stream the call before it
\* was given, in the same process, appends no line to the discovery file and
\* makes no hint-learning pass.
C11_SecondRunAppendsNothing ==
    rerun => (Len(discoveryFile) = linesAtStart /\ hint_pass_count = 0)

(***************************************************************************)
(* parse_with_auto_hints run by several workers of one process at once     *)
(* (the spawn_blocking workers of api/handlers/import_zip.rs).  The locks  *)
(* of the cache and of the seen set are held for one step each; the file   *)
(* is opened and written outside both, the key and the newline of          *)
(* writeln! in a write of their own.                                       *)
(***************************************************************************)

\* The normalizations running at once.
MaxWorkers == 2

NoPending == <<>>

\* The streams the workers are given: all of them the same one, with one or
\* two containers the merged map may have no hint for.
WorkerFiles == {[needs |-> n, stuckAt |-> 0, bad |-> FALSE] : n \in {1, 2}}

WorkerAt(file) ==
    [pc |-> "start", file |-> file, mirrored |-> EmptyMap, hints |-> EmptyMap,
     passes |-> 0, pending |-> NoPending, called |-> {}]

\* The line the file gets when a newline ends what was written since the
\* last one: a blank line, the key, or the first key run into the next ones,
\* which split_once('|') reads as its path and a longer type.
LineOf(keys) ==
    IF keys = <<>> THEN CommentLine
    ELSE IF Len(keys) = 1 THEN DiscoveryLine(keys[1][1], keys[1][2])
    ELSE DiscoveryLine(keys[1][1], keys[1][2] \o "+")

InitConcurrent ==
    /\ DetectIdle /\ ResolverIdle /\ AssignIdle /\ WalkIdle
    /\ ImportIdle /\ CallsIdle /\ ZipIdle /\ CodecIdle /\ FnIdle
    /\ RowsIdle
    /\ InspectIdle
    /\ ProgressIdle
    /\ UploadIdle
    /\ typeHints \in SeedTables(<<"">>)
    /\ disabledProps = {}
    /\ discoveryFile \in DiscoveryFiles
    /\ ioFailAt \in {0, 1}
    /\ persistedHints = None /\ persistedSet = None /\ hintCache = EmptyMap
    /\ appendCalls = 0
    /\ workers \in {[w \in 1..MaxWorkers |-> WorkerAt(f)] : f \in WorkerFiles}
    /\ openLine = <<>> /\ appendedKeys = <<>>
    /\ loadedLines = Len(discoveryFile)

fileVars == <<discoveryFile, openLine, appendedKeys, appendCalls>>

\* parse_with_auto_hints up to its loop.
WorkerStart ==
    \E w \in DOMAIN workers :
        /\ workers[w].pc = "start"
        /\ UNCHANGED exceptConcurrent
        /\ workers' = [workers EXCEPT ![w].pc = "parse",
                                      ![w].mirrored = merged_hints_with_cache,
                                      ![w].hints = merged_hints_with_cache]
        /\ persistedHints' = Some(load_persisted_hints)
        /\ UNCHANGED <<typeHints, disabledProps, persistedSet, hintCache, ioFailAt,
                       loadedLines, fileVars>>

\* One iteration of the loop up to the call of cache_discovered_hint.
WorkerPass ==
    \E w \in DOMAIN workers :
        /\ workers[w].pc = "parse"
        /\ UNCHANGED exceptConcurrent
        /\ LET me == workers[w]
               r == read_with_hints(me.file, me.hints)
               arm == hint_loop_arm(r, me.hints, me.passes)
               inferred == inferred_hint(me.mirrored, r.path, r.hint)
               key == <<normalize_hint_path(r.path), inferred>>
           IN  workers' =
                   IF arm = "learn"
                   THEN [workers EXCEPT ![w].pc = "cache",
                                        ![w].hints = Insert(me.hints, r.path, inferred),
                                        ![w].pending = key,
                                        ![w].called = me.called \cup {key}]
                   ELSE [workers EXCEPT ![w].pc = "done"]
        /\ UNCHANGED <<registryVars, openLine, appendedKeys, loadedLines>>

\* cache_discovered_hint: the insert under the lock of the cache.
WorkerCacheInsert ==
    \E w \in DOMAIN workers :
        /\ workers[w].pc = "cache"
        /\ UNCHANGED exceptConcurrent
        /\ hintCache' = Insert(hintCache, workers[w].pending[1], workers[w].pending[2])
        /\ workers' = [workers EXCEPT ![w].pc = "persist"]
        /\ UNCHANGED <<typeHints, disabledProps, persistedHints, persistedSet,
                       ioFailAt, loadedLines, fileVars>>

\* persist_discovered_hint: the insert under the lock of the seen set, and
\* the return when the key was there.
WorkerSetInsert ==
    \E w \in DOMAIN workers :
        /\ workers[w].pc = "persist"
        /\ UNCHANGED exceptConcurrent
        /\ LET key == workers[w].pending
               fresh == seen_set_insert(persisted_hint_set, key)
           IN  /\ persistedSet' = Some(persisted_hint_set \cup {key})
               /\ workers' = [workers EXCEPT
                                 ![w].pc = IF fresh THEN "open" ELSE "parse",
                                 ![w].passes = IF fresh THEN @ ELSE @ + 1]
        /\ persistedHints' = Some(load_persisted_hints)
        /\ UNCHANGED <<typeHints, disabledProps, hintCache, ioFailAt, loadedLines,
                       fileVars>>

\* persist_discovered_hint: create_dir_all, open, and the write of the key;
\* a failure is logged by cache_discovered_hint and the loop goes on.
WorkerWriteKey ==
    \E w \in DOMAIN workers :
        /\ workers[w].pc = "open"
        /\ UNCHANGED exceptConcurrent
        /\ appendCalls' = appendCalls + 1
        /\ IF appendCalls + 1 = ioFailAt
           THEN /\ workers' = [workers EXCEPT ![w].pc = "parse", ![w].passes = @ + 1]
                /\ UNCHANGED <<openLine, appendedKeys>>
           ELSE /\ workers' = [workers EXCEPT ![w].pc = "newline"]
                /\ openLine' = Append(openLine, workers[w].pending)
                /\ appendedKeys' = Append(appendedKeys, workers[w].pending)
        /\ UNCHANGED <<typeHints, disabledProps, discoveryFile, persistedHints,
                       persistedSet, hintCache, ioFailAt, loadedLines>>

\* persist_discovered_hint: the write of the newline, and the return.
WorkerWriteNewline ==
    \E w \in DOMAIN workers :
        /\ workers[w].pc = "newline"
        /\ UNCHANGED exceptConcurrent
        /\ discoveryFile' = Append(discoveryFile, LineOf(openLine))
        /\ openLine' = <<>>
        /\ workers' = [workers EXCEPT ![w].pc = "parse", ![w].passes = @ + 1]
        /\ UNCHANGED <<typeHints, disabledProps, persistedHints, persistedSet,
                       hintCache, appendCalls, appendedKeys, ioFailAt, loadedLines>>

NextConcurrent ==
    \/ WorkerStart
    \/ WorkerPass
    \/ WorkerCacheInsert
    \/ WorkerSetInsert
    \/ WorkerWriteKey
    \/ WorkerWriteNewline

SpecConcurrent == InitConcurrent /\ [][NextConcurrent]_vars

\* The (path, type) pair is on one of the lines the file had when the
\* process started.
PairLoaded(key) ==
    \E k \in 1..loadedLines :
        /\ ~discoveryFile[k].comment
        /\ normalize_hint_path(discoveryFile[k].path) = key[1]
        /\ discoveryFile[k].ty = key[2]

\* C12: however the calls of cache_discovered_hint of the normalizations of
\* one process interleave, no (path, type) pair is written to the discovery
\* file twice, and none that was in the file when the process loaded it is
\* written again.
C12_PairAppendedAtMostOnce ==
    /\ \A i, j \in DOMAIN appendedKeys :
          appendedKeys[i] = appendedKeys[j] => i = j
    /\ \A i \in DOMAIN appendedKeys : ~PairLoaded(appendedKeys[i])

\* Two normalizations have called cache_discovered_hint with one pair, both
\* have returned, and the pair has been written.
C12_Witness ==
    /\ \A w \in DOMAIN workers : workers[w].pc = "done"
    /\ \E key \in workers[1].called \cap workers[2].called :
          \E i \in DOMAIN appendedKeys : appendedKeys[i] = key

(***************************************************************************)
(* save/hint_registry.rs: its public functions called in any order         *)
(***************************************************************************)

\* The calls of the registry's functions one process makes.
MaxCalls == 3

\* The paths and types cache_discovered_hint is called with.
CallPaths ==
    {<<"worldSaveData", Name(1), "Value">>, <<"", "worldSaveData", Name(2), "Value">>}

CallTypes == {"StructProperty", "ArrayProperty"}

\* The discovery files a process may find: those of DiscoveryFiles, and one
\* with two lines for one path.
RegistryFiles ==
    DiscoveryFiles \cup
        {<<DiscoveryLine(<<"worldSaveData", Name(1), "Value">>, "IntProperty"),
           DiscoveryLine(<<"", "worldSaveData", Name(1), "Value">>, "ByteProperty")>>}

InitRegistry ==
    /\ DetectIdle /\ ResolverIdle /\ AssignIdle /\ WalkIdle
    /\ ImportIdle /\ WorkersIdle /\ ZipIdle /\ CodecIdle /\ FnIdle
    /\ RowsIdle
    /\ InspectIdle
    /\ ProgressIdle
    /\ UploadIdle
    /\ typeHints \in SeedTables(<<"">>)
    /\ disabledProps \in DisabledSets
    /\ discoveryFile \in RegistryFiles
    /\ ioFailAt \in 0..MaxIoFailAt
    /\ persistedHints = None /\ persistedSet = None /\ hintCache = EmptyMap
    /\ appendCalls = 0
    /\ CallsIdle

\* cache_discovered_hint(path, ty)
CallCacheDiscoveredHint ==
    /\ callCount < MaxCalls
    /\ UNCHANGED exceptRegistry
    /\ \E path \in CallPaths, ty \in CallTypes :
          /\ cache_discovered_hint(path, ty)
          /\ observedPairs' = observedPairs \cup {<<normalize_hint_path(path), ty>>}
    /\ lastCall' = "cache"
    /\ callCount' = callCount + 1
    /\ UNCHANGED mergedResult

\* merged_hints_with_cache()
CallMergedHints ==
    /\ callCount < MaxCalls
    /\ UNCHANGED exceptRegistry
    /\ mergedResult' = Some(merged_hints_with_cache)
    /\ persistedHints' = Some(load_persisted_hints)
    /\ lastCall' = "merged"
    /\ callCount' = callCount + 1
    /\ UNCHANGED <<typeHints, disabledProps, discoveryFile, persistedSet, hintCache,
                   appendCalls, ioFailAt, observedPairs>>

NextRegistry ==
    \/ CallCacheDiscoveredHint
    \/ CallMergedHints

SpecRegistry == InitRegistry /\ [][NextRegistry]_vars

\* The discovery file has a line for the pair.
FileHasPair(key) ==
    \E k \in DOMAIN discoveryFile :
        /\ ~discoveryFile[k].comment
        /\ normalize_hint_path(discoveryFile[k].path) = key[1]
        /\ discoveryFile[k].ty = key[2]

\* C13: after any calls of cache_discovered_hint, failed appends included,
\* the discovery file holds a line for every (path, type) pair that was
\* passed to it.
C13_EveryObservedPairOnFile ==
    \A key \in observedPairs : FileHasPair(key)

\* The lines of the discovery file load_persisted_hints keeps for the path.
LogLinesFor(path) ==
    {k \in DOMAIN discoveryFile :
        /\ ~discoveryFile[k].comment
        /\ discoveryFile[k].ty # ""
        /\ path # EmptyPath
        /\ normalize_hint_path(discoveryFile[k].path) = path}

\* The seed-table keys that stand for the path, when the path is not disabled.
SeedKeysFor(path) ==
    IF \E d \in disabledProps : normalize_hint_path(d) = path
    THEN {}
    ELSE {q \in DOMAIN typeHints : normalize_hint_path(q) = path}

\* The type the three sources give the path: the cache's, else the last line
\* of the discovery log for it, else the seed table's; None when none has it.
ExpectedMerged(path) ==
    IF path \in DOMAIN hintCache THEN Some(hintCache[path])
    ELSE IF LogLinesFor(path) # {}
    THEN Some(discoveryFile[CHOOSE k \in LogLinesFor(path) :
                                \A j \in LogLinesFor(path) : j <= k].ty)
    ELSE IF SeedKeysFor(path) # {}
    THEN Some(typeHints[CHOOSE q \in SeedKeysFor(path) : TRUE])
    ELSE None

\* The paths any of the sources or the result knows, and one none knows.
ProbedPaths ==
    DOMAIN hintCache
       \cup {normalize_hint_path(q) : q \in DOMAIN typeHints}
       \cup {normalize_hint_path(discoveryFile[k].path) : k \in DOMAIN discoveryFile}
       \cup (IF mergedResult = None THEN {} ELSE DOMAIN Unwrap(mergedResult))
       \cup {<<"worldSaveData", Name(3), "Value">>}

\* C14: what merged_hints_with_cache returns gives every path the type of the
\* in-process cache if the cache has the path, else the type of the persisted
\* discovery log if the log has it, else the type of the seed table unless
\* the path is disabled; a path none of the three has is not in the result.
C14_MergePrecedence ==
    lastCall = "merged" =>
        LET merged == Unwrap(mergedResult)
        IN  \A path \in ProbedPaths :
                (IF path \in DOMAIN merged THEN Some(merged[path]) ELSE None)
                    = ExpectedMerged(path)

\* merged_hints_with_cache has returned with a path that the cache, the log
\* and the seed table all have, each with a type of its own.
C14_Witness ==
    /\ lastCall = "merged"
    /\ \E path \in DOMAIN hintCache :
          /\ LogLinesFor(path) # {}
          /\ SeedKeysFor(path) # {}
          /\ \A k \in LogLinesFor(path) : discoveryFile[k].ty # hintCache[path]
          /\ \A q \in SeedKeysFor(path) : typeHints[q] # hintCache[path]
          /\ Unwrap(mergedResult)[path] = hintCache[path]

(***************************************************************************)
(* save/normalize.rs: guids, parse_base_assignments                        *)
(***************************************************************************)

\* The guids of the model; 0 is the all-zero guid.
GuidValues == {0, 1, 2}
NonZeroGuids == GuidValues \ {0}

\* guid.to_string() of the gvas crate: "0" for the zero guid, upper-case
\* hyphenated groups for any other.  A guid text is held as its form and the
\* guid whose hex digits it shows.
GuidToString(g) ==
    IF g = 0
    THEN [form |-> "short", digits |-> 0, upper |-> TRUE]
    ELSE [form |-> "hyphenated", digits |-> g, upper |-> TRUE]

\* "00000000000000000000000000000000"
ZeroGuidText == [form |-> "plain", digits |-> 0, upper |-> TRUE]

\* if value == "0" { 32 zeros } else { value.replace('-', "").to_uppercase() }
normalize_guid(value) ==
    IF value = [form |-> "short", digits |-> 0, upper |-> TRUE]
    THEN ZeroGuidText
    ELSE [form |-> IF value.form = "hyphenated" THEN "plain" ELSE value.form,
          digits |-> value.digits, upper |-> TRUE]

\* get_guid_uid on a guid property, and decode_guid of the raw-data codecs.
get_guid_uid(g) == normalize_guid(GuidToString(g))

\* An entry of BaseCampSaveData: whether its value is a custom struct, the
\* id its RawData decodes to (None: no RawData, not decodable, or no "id"),
\* and the container_id its WorkerDirector.RawData decodes to (None alike).
BaseCampEntries ==
    [struct : BOOLEAN,
     id : {None} \cup {Some(g) : g \in NonZeroGuids},
     container_id : {None} \cup {Some(g) : g \in NonZeroGuids}]

\* A slot of a container: whether it is a custom struct, its SlotIndex
\* property if it is an integer, and the instance_id its RawData decodes to
\* (None: no RawData, not decodable, or no "instance_id").
SlotIndexes == {0, 1}

\* (What the code does not look at is left out: the fields of a slot that is
\* no struct, the SlotIndex of a slot it skips.)
SlotShapes ==
    {s \in [struct : BOOLEAN,
            slot_index : {None} \cup {Some(i) : i \in SlotIndexes},
            instance_id : {None} \cup {Some(g) : g \in GuidValues}] :
        /\ ~s.struct => s.instance_id = None
        /\ s.instance_id \in {None, Some(0)} => s.slot_index = None}

\* The slots of one container, and the slot rows recorded in all (the maps
\* have any number of entries).
MaxSlotRows == 2

SlotLists == UNION {[1..n -> SlotShapes] : n \in 0..MaxSlotRows}

\* An entry of CharacterContainerSaveData: the ID of its key (None: the key
\* is no custom struct or has no guid ID), whether its value is a custom
\* struct with a Slots array of structs, and the slots.
ContainerEntries ==
    {e \in [id : {None} \cup {Some(g) : g \in NonZeroGuids},
            slots_array : BOOLEAN,
            slots : SlotLists] :
        (e.id = None \/ ~e.slots_array) => e.slots = <<>>}

\* The loop over the slots of one container: the (slot_index, instance_id)
\* pairs it pushes, in order.
RECURSIVE slot_rows(_)
slot_rows(slots) ==
    IF slots = <<>> THEN <<>>
    ELSE LET slot == Head(slots)
             slot_index == IF slot.slot_index = None THEN 0
                           ELSE Unwrap(slot.slot_index)
             kept == /\ slot.struct
                     /\ slot.instance_id # None
                     /\ get_guid_uid(Unwrap(slot.instance_id)) # ZeroGuidText
         IN  (IF kept
              THEN <<[slot_index |-> slot_index,
                      instance_id |-> get_guid_uid(Unwrap(slot.instance_id))]>>
              ELSE <<>>) \o slot_rows(Tail(slots))

\* raw_file_ref: the save_files row of Level.sav.
LevelFile == [kind |-> "Level.sav", name |-> None]

\* slot_index.to_string()
I32ToString(i) == ToString(i)

ExtractedAssignment(base_id, container_id, row, priority) ==
    [base_id |-> base_id,
     pal_instance_id |-> row.instance_id,
     assignment_kind |-> Some("base_slot"),
     assignment_target |-> Some(I32ToString(row.slot_index)),
     priority |-> Some(priority),
     raw_file_ref |-> LevelFile,
     raw_entity_path |-> <<"worldSaveData", "CharacterContainerSaveData",
                           container_id, "Slots", row.slot_index>>]

RECURSIVE emit_assignments_by_position(_, _, _)
emit_assignments_by_position(order, b2c, slots) ==
    IF order = <<>> THEN <<>>
    ELSE LET base_id == Head(order)
             container_id == b2c[base_id]
             rows == IF container_id \in DOMAIN slots THEN slots[container_id]
                     ELSE <<>>
         IN  [k \in 1..Len(rows) |->
                 ExtractedAssignment(base_id, container_id, rows[k], k - 1)]
             \o emit_assignments_by_position(Tail(order), b2c, slots)

\* for (base_id, container_id) in base_to_container { .. }, the map gone
\* through in the order `order` of its keys.
RECURSIVE emit_assignments(_, _, _)
emit_assignments(order, b2c, slots) ==
    IF order = <<>> THEN <<>>
    ELSE LET base_id == Head(order)
             container_id == b2c[base_id]
             rows == IF container_id \in DOMAIN slots THEN slots[container_id]
                     ELSE <<>>
         IN  [k \in 1..Len(rows) |->
                 ExtractedAssignment(base_id, container_id, rows[k],
                                     rows[k].slot_index)]
             \o emit_assignments(Tail(order), b2c, slots)

\* The orders in which a HashMap may yield the keys S.
IterationOrders(S) ==
    {o \in [1..Cardinality(S) -> S] : \A x \in S : \E k \in DOMAIN o : o[k] = x}

SlotRowsRecorded ==
    LET RECURSIVE Total(_)
        Total(S) == IF S = {} THEN 0
                    ELSE LET c == CHOOSE c \in S : TRUE
                         IN  Len(container_slots[c]) + Total(S \ {c})
    IN  Total(DOMAIN container_slots)

InitAssign ==
    /\ DetectIdle /\ HintsIdle /\ WalkIdle /\ ImportIdle
    /\ CallsIdle /\ WorkersIdle /\ ZipIdle /\ CodecIdle /\ FnIdle
    /\ RowsIdle
    /\ InspectIdle
    /\ ProgressIdle
    /\ UploadIdle
    /\ base_to_container = EmptyMap /\ container_slots = EmptyMap
    /\ assignments = <<>>
    /\ pcAssign = "base_camps"

\* One iteration of the loop over BaseCampSaveData (the counters of
\* AssignmentParseStats, which only the metrics read, are left out).
ReadBaseCamp ==
    /\ pcAssign = "base_camps"
    /\ UNCHANGED exceptAssign
    /\ \E e \in BaseCampEntries :
         base_to_container' =
             IF e.struct /\ e.id # None /\ e.container_id # None
             THEN Insert(base_to_container, get_guid_uid(Unwrap(e.id)),
                         get_guid_uid(Unwrap(e.container_id)))
             ELSE base_to_container
    /\ UNCHANGED <<container_slots, assignments, pcAssign>>

\* One iteration of the loop over CharacterContainerSaveData, which starts
\* once BaseCampSaveData is gone through; the loop over the container's
\* slots is part of it.
ReadContainer ==
    /\ pcAssign \in {"base_camps", "containers"}
    /\ UNCHANGED exceptAssign
    /\ \E e \in ContainerEntries :
         LET rows == IF e.id # None /\ e.slots_array THEN slot_rows(e.slots)
                     ELSE <<>>
             container_id == get_guid_uid(Unwrap(e.id))
         IN  /\ SlotRowsRecorded + Len(rows) <= MaxSlotRows
             /\ container_slots' =
                   IF rows = <<>> THEN container_slots
                   ELSE Insert(container_slots, container_id,
                               (IF container_id \in DOMAIN container_slots
                                THEN container_slots[container_id] ELSE <<>>)
                               \o rows)
    /\ pcAssign' = "containers"
    /\ UNCHANGED <<base_to_container, assignments>>

\* The last loop of parse_base_assignments and its return.
EmitAssignments ==
    /\ pcAssign \in {"base_camps", "containers"}
    /\ UNCHANGED exceptAssign
    /\ \E order \in IterationOrders(DOMAIN base_to_container) :
         assignments' = emit_assignments(order, base_to_container, container_slots)
    /\ pcAssign' = "returned"
    /\ UNCHANGED <<base_to_container, container_slots>>

NextAssign ==
    \/ ReadBaseCamp
    \/ ReadContainer
    \/ EmitAssignments

SpecAssign == InitAssign /\ [][NextAssign]_vars

\* How many elements of the sequence s satisfy Test.
CountIn(s, Test(_)) == Cardinality({k \in DOMAIN s : Test(s[k])})

\* C7: what parse_base_assignments returns holds, for every base linked to a
\* container and every slot row recorded for that container, exactly one
\* assignment of kind "base_slot" whose target is the slot index as text and
\* whose priority is the slot index, none with the zero instance id, and
\* nothing else: nothing for a base whose container has no rows, nothing for
\* a container no base is linked to.
C7_CrossProduct ==
    pcAssign = "returned" =>
        /\ \A k \in DOMAIN assignments :
             LET a == assignments[k]
             IN  /\ a.assignment_kind = Some("base_slot")
                 /\ a.pal_instance_id # ZeroGuidText
                 /\ a.priority # None
                 /\ a.assignment_target = Some(ToString(Unwrap(a.priority)))
                 /\ a.base_id \in DOMAIN base_to_container
        /\ \A b \in {get_guid_uid(g) : g \in GuidValues} :
           \A i \in {get_guid_uid(g) : g \in GuidValues} :
           \A s \in SlotIndexes :
             LET IsIt(a) == a.base_id = b /\ a.pal_instance_id = i
                            /\ a.priority = Some(s)
                 IsRow(r) == r.instance_id = i /\ r.slot_index = s
                 linked == /\ b \in DOMAIN base_to_container
                           /\ base_to_container[b] \in DOMAIN container_slots
             IN  CountIn(assignments, IsIt) =
                    IF linked
                    THEN CountIn(container_slots[base_to_container[b]], IsRow)
                    ELSE 0

C7_Witness ==
    /\ pcAssign = "returned"
    /\ Len(assignments) >= 2
    /\ \E k \in DOMAIN assignments : assignments[k].priority # Some(k - 1)
    /\ \/ \E b \in DOMAIN base_to_container :
             base_to_container[b] \notin DOMAIN container_slots
       \/ \E c \in DOMAIN container_slots :
             \A b \in DOMAIN base_to_container : base_to_container[b] # c

(***************************************************************************)
(* save/normalize.rs: parse_character_map and the lines that call it       *)
(***************************************************************************)

\* The entries of CharacterSaveParameterMap.
MaxCharacters == 2

\* The bytes left in RawData after the property stream: too few for the
\* four skipped bytes, enough for them but not for the guid after them, and
\* enough for both.
TailLengths == {3, 4, 19, 20}

\* An entry of CharacterSaveParameterMap: whether key and value are custom
\* structs, the InstanceId and PlayerUId of the key if they are guids, the
\* RawData of the value ("absent", "bad": its property stream does not
\* parse, "ok"), the bytes after the stream and the guid they hold, whether
\* the stream has a SaveParameter struct, and its IsPlayer property.
\* (What the code does not look at is left at the first value.)
CharacterEntries ==
    {e \in [structs : BOOLEAN,
            instance_id : {None} \cup {Some(g) : g \in NonZeroGuids},
            player_uid : {None} \cup {Some(g) : g \in {0, 1}},
            raw : {"ok", "bad", "absent"},
            tail : TailLengths,
            group : {2},
            save_parameter : BOOLEAN,
            is_player : {"absent", "true", "false"}] :
        LET unread == e.tail = 3 /\ e.save_parameter /\ e.is_player = "absent"
            blank == e.instance_id = None /\ e.player_uid = None /\ e.raw = "ok"
        IN  /\ ~e.structs => blank /\ unread
            /\ (e.instance_id = None \/ e.player_uid = None \/ e.raw # "ok") => unread
            /\ e.instance_id = None => e.player_uid = None /\ e.raw = "ok"
            /\ e.player_uid = None => e.raw = "ok"
            /\ ~e.save_parameter => e.is_player = "absent"}

\* Progress on completion only.
should_emit_character_progress_on_completion(processed, total) ==
    processed = total

should_emit_character_progress(processed, total) ==
    processed = total \/ processed % 64 = 0

\* The closure emit_progress of parse_character_map.
emit_progress(processed, selected, player_count, pal_count, total) ==
    [progress_pct_hint |->
         Some(Clamp(IF total = 0 THEN 98 ELSE 90 + ((processed * 8) \div total), 90, 98)),
     message |-> <<"Extracting planner entities from Level.sav", processed, total,
                   selected, player_count, pal_count>>,
     total_character_entries |-> total,
     processed_character_entries |-> processed,
     selected_character_entries |-> selected,
     player_count |-> player_count,
     pal_count |-> pal_count]

character_entry_fate_selects_all(e, required) ==
    IF ~e.structs \/ e.instance_id = None \/ e.player_uid = None \/ e.raw = "absent"
    THEN "skipped"
    ELSE IF e.raw = "bad" THEN "stream_error"
    ELSE IF e.tail < 4 THEN "short_tail"
    ELSE IF ~e.save_parameter THEN "no_save_parameter"
    ELSE IF e.is_player = "true" THEN "player"
    ELSE "pal"

\* What one iteration of the loop of parse_character_map does with entry e.
character_entry_fate(e, required) ==
    IF ~e.structs \/ e.instance_id = None \/ e.player_uid = None \/ e.raw = "absent"
    THEN "skipped"
    ELSE IF /\ get_guid_uid(Unwrap(e.player_uid)) = ZeroGuidText
            /\ get_guid_uid(Unwrap(e.instance_id)) \notin required
    THEN "dropped"
    ELSE IF e.raw = "bad" THEN "stream_error"
    ELSE IF e.tail < 4 THEN "short_tail"
    ELSE IF ~e.save_parameter THEN "no_save_parameter"
    ELSE IF e.is_player = "true" THEN "player"
    ELSE "pal"

\* cursor.read_guid().ok().map(..) after the four skipped bytes.
group_id(e) == IF e.tail >= 20 THEN Some(get_guid_uid(e.group)) ELSE None

ExtractedPlayer(e) ==
    [player_uid |-> get_guid_uid(Unwrap(e.player_uid)),
     player_instance_id |-> Some(get_guid_uid(Unwrap(e.instance_id))),
     guild_id |-> group_id(e),
     raw_file_ref |-> LevelFile]

ExtractedPal(e) ==
    [pal_instance_id |-> get_guid_uid(Unwrap(e.instance_id)),
     raw_file_ref |-> LevelFile]

\* The assignments parse_base_assignments has returned when the walk is
\* called: none, one, and the two of one base whose container has two slots.
ReturnedAssignments ==
    LET one == get_guid_uid(1)
        two == get_guid_uid(2)
    IN  {emit_assignments(<<one>>, (one :> one), slots) :
            slots \in {EmptyMap,
                       (one :> <<[slot_index |-> 0, instance_id |-> one]>>),
                       (one :> <<[slot_index |-> 0, instance_id |-> one],
                                 [slot_index |-> 1, instance_id |-> two]>>)}}

InitWalk ==
    /\ DetectIdle /\ HintsIdle /\ ImportIdle /\ CallsIdle
    /\ WorkersIdle /\ ZipIdle /\ CodecIdle /\ FnIdle
    /\ RowsIdle
    /\ InspectIdle
    /\ ProgressIdle
    /\ UploadIdle
    /\ base_to_container = EmptyMap /\ container_slots = EmptyMap
    /\ assignments \in ReturnedAssignments
    /\ pcAssign = "returned"
    /\ charMapShape \in {"missing", "not_map", "map"}
    /\ total_entries \in (IF charMapShape = "map" THEN 0..MaxCharacters ELSE {0})
    /\ required_assignment_instance_ids = {}
    /\ processed_entries = 0 /\ selected_entries = 0
    /\ players = <<>> /\ pals = <<>>
    /\ lastEntry = None /\ beforeEntry = <<0, 0, 0>>
    /\ walkProgress = None /\ walkResult = NoResult
    /\ pcWalk = "called"

\* extract_from_level_sav_with_progress collects the required set and calls
\* parse_character_map, which runs up to its loop.
CallCharacterMap ==
    /\ pcWalk = "called"
    /\ UNCHANGED exceptWalk
    /\ required_assignment_instance_ids' =
          {assignments[k].pal_instance_id : k \in DOMAIN assignments}
    /\ CASE charMapShape = "missing" ->
              /\ walkResult' = Err("missing CharacterSaveParameterMap")
              /\ pcWalk' = "done"
              /\ UNCHANGED walkProgress
         [] charMapShape = "not_map" ->
              /\ walkResult' = Err("CharacterSaveParameterMap is not a map")
              /\ pcWalk' = "done"
              /\ UNCHANGED walkProgress
         [] OTHER ->
              /\ walkProgress' = Some(emit_progress(0, 0, 0, 0, total_entries))
              /\ pcWalk' = "entries"
              /\ UNCHANGED walkResult
    /\ UNCHANGED <<charMapShape, total_entries, processed_entries, selected_entries,
                   players, pals, lastEntry, beforeEntry>>

\* One iteration of the loop of parse_character_map.
CharacterEntry ==
    /\ pcWalk = "entries" /\ processed_entries < total_entries
    /\ UNCHANGED exceptWalk
    /\ \E e \in CharacterEntries :
         LET fate == character_entry_fate(e, required_assignment_instance_ids)
             processed == processed_entries + 1
             selected == IF fate \in {"skipped", "dropped"} THEN selected_entries
                         ELSE selected_entries + 1
         IN  /\ lastEntry' = Some(e)
             /\ beforeEntry' = <<selected_entries, Len(players), Len(pals)>>
             /\ processed_entries' = processed
             /\ selected_entries' = selected
             /\ players' = IF fate = "player" THEN Append(players, ExtractedPlayer(e))
                           ELSE players
             /\ pals' = IF fate = "pal" THEN Append(pals, ExtractedPal(e)) ELSE pals
             /\ IF fate = "stream_error"
                THEN /\ walkResult' = Err("property stream")
                     /\ pcWalk' = "done"
                     /\ UNCHANGED walkProgress
                ELSE /\ walkProgress' =
                           IF should_emit_character_progress(processed, total_entries)
                           THEN Some(emit_progress(processed, selected, Len(players'),
                                                   Len(pals'), total_entries))
                           ELSE walkProgress
                     /\ UNCHANGED <<walkResult, pcWalk>>
    /\ UNCHANGED <<charMapShape, total_entries, required_assignment_instance_ids>>

\* parse_character_map after its loop.
FinishCharacterMap ==
    /\ pcWalk = "entries" /\ processed_entries = total_entries
    /\ UNCHANGED exceptWalk
    /\ walkProgress' =
          IF ~should_emit_character_progress(processed_entries, total_entries)
          THEN Some(emit_progress(processed_entries, selected_entries, Len(players),
                                  Len(pals), total_entries))
          ELSE walkProgress
    /\ walkResult' = Ok([total_entries |-> total_entries,
                         selected_entries |-> selected_entries,
                         decoded_entries |-> Len(players) + Len(pals)])
    /\ pcWalk' = "done"
    /\ UNCHANGED <<charMapShape, total_entries, required_assignment_instance_ids,
                   processed_entries, selected_entries, players, pals, lastEntry,
                   beforeEntry>>

NextWalk ==
    \/ CallCharacterMap
    \/ CharacterEntry
    \/ FinishCharacterMap

SpecWalk == InitWalk /\ [][NextWalk]_vars

\* The entry gone through last has an InstanceId, a PlayerUId and RawData.
LastEntryRead ==
    /\ lastEntry # None
    /\ Unwrap(lastEntry).structs
    /\ Unwrap(lastEntry).instance_id # None
    /\ Unwrap(lastEntry).player_uid # None
    /\ Unwrap(lastEntry).raw # "absent"

\* Its PlayerUId is all zeros and its InstanceId is not in the required set.
LastEntryUnowned ==
    /\ Unwrap(Unwrap(lastEntry).player_uid) = 0
    /\ get_guid_uid(Unwrap(Unwrap(lastEntry).instance_id))
          \notin required_assignment_instance_ids

\* C5: an entry whose PlayerUId is all zeros and whose InstanceId no emitted
\* assignment refers to adds no player row and no pal row and is not counted
\* in selected_entries.
C5_UnownedEntryDropped ==
    (LastEntryRead /\ LastEntryUnowned) =>
        /\ required_assignment_instance_ids =
              {assignments[k].pal_instance_id : k \in DOMAIN assignments}
        /\ selected_entries = beforeEntry[1]
        /\ Len(players) = beforeEntry[2]
        /\ Len(pals) = beforeEntry[3]

C5_Witness ==
    /\ LastEntryRead /\ LastEntryUnowned
    /\ Unwrap(lastEntry).raw = "ok"
    /\ Unwrap(lastEntry).tail = 20
    /\ Unwrap(lastEntry).save_parameter
    /\ required_assignment_instance_ids # {}
    /\ Len(pals) > 0

\* C6: an entry the selection rule keeps and whose RawData stream parses
\* adds exactly one row, a player row if IsPlayer is true and a pal row
\* otherwise, whatever the number of bytes after the stream; only the
\* guild_id is absent when fewer than 20 follow.
C6_KeptEntryYieldsOneRow ==
    (LastEntryRead /\ ~LastEntryUnowned /\ Unwrap(lastEntry).raw = "ok") =>
        LET e == Unwrap(lastEntry)
        IN  IF e.save_parameter /\ e.is_player = "true"
            THEN /\ Len(players) = beforeEntry[2] + 1
                 /\ Len(pals) = beforeEntry[3]
                 /\ players[Len(players)].guild_id =
                       (IF e.tail >= 20 THEN Some(get_guid_uid(e.group)) ELSE None)
            ELSE /\ Len(players) = beforeEntry[2]
                 /\ Len(pals) = beforeEntry[3] + 1

(***************************************************************************)
(* api/handlers/import_zip.rs: one upload and its background task          *)
(***************************************************************************)

VARIANT_INSPECT_TIMEOUT_SECS == 20
LEVEL_NORMALIZE_TIMEOUT_SECS == 300

\* The file name of a Players/*.sav entry: the guid whose digits it shows,
\* whether it is 32 hex digits, and its letter case.
PlayerFiles == [digits : {1}, hex32 : BOOLEAN, upper : BOOLEAN]

\* strip "Players/" and ".sav"; 32 hex digits, upper-cased.
extract_player_uid_from_path(f) ==
    IF f.hex32 THEN Some([form |-> "plain", digits |-> f.digits, upper |-> TRUE])
    ELSE None

\* COALESCE(EXCLUDED.x, planner_players.x)
Coalesce(new, old) == IF new # None THEN new ELSE old

\* INSERT INTO planner_players .. ON CONFLICT (import_version_id, player_uid)
\* DO UPDATE ..; the table of one import version, keyed by player_uid.
upsert_planner_player(table, player) ==
    Insert(table, player.player_uid,
           IF player.player_uid \in DOMAIN table
           THEN [player_instance_id |->
                     Coalesce(player.player_instance_id,
                              table[player.player_uid].player_instance_id),
                 guild_id |-> Coalesce(player.guild_id,
                                       table[player.player_uid].guild_id),
                 raw_file_ref |-> player.raw_file_ref]
           ELSE [player_instance_id |-> player.player_instance_id,
                 guild_id |-> player.guild_id,
                 raw_file_ref |-> player.raw_file_ref])

\* .. ON CONFLICT (import_version_id, pal_instance_id) DO UPDATE ..
upsert_planner_pal(table, pal) ==
    Insert(table, pal.pal_instance_id, [raw_file_ref |-> pal.raw_file_ref])

\* .. ON CONFLICT (import_version_id, base_id, pal_instance_id,
\* assignment_kind, assignment_target) DO UPDATE ..
upsert_planner_assignment(table, a) ==
    Insert(table,
           <<a.base_id, a.pal_instance_id, a.assignment_kind, a.assignment_target>>,
           [priority |-> a.priority, raw_file_ref |-> a.raw_file_ref])

\* The loops of persist_normalized_extract and of the seeding in
\* run_import_zip: one upsert per row, in order.
RECURSIVE UpsertAll(_, _, _)
UpsertAll(Upsert(_, _), table, rows) ==
    IF rows = <<>> THEN table
    ELSE UpsertAll(Upsert, Upsert(table, Head(rows)), Tail(rows))

\* The player rows run_import_zip seeds from the Players/*.sav paths.
RECURSIVE SeedRows(_)
SeedRows(files) ==
    IF files = {} THEN <<>>
    ELSE LET f == CHOOSE f \in files : TRUE
             uid == extract_player_uid_from_path(f)
         IN  (IF uid = None THEN <<>>
              ELSE <<[player_uid |-> Unwrap(uid), player_instance_id |-> None,
                      guild_id |-> None,
                      raw_file_ref |-> [kind |-> "Players", name |-> Some(f)]]>>)
             \o SeedRows(files \ {f})

\* UPDATE save_import_versions SET status = 'processing', ..
update_import_progress(row, phase, progress_pct, message) ==
    [row EXCEPT !.status = "processing",
                !.progress_phase = phase,
                !.progress_pct = Clamp(progress_pct, 0, 100),
                !.progress_message = message,
                !.failed_error = None]

\* mark_import_failed with the percentage put back to 0.
mark_import_failed_at_zero(row, error_text) ==
    [row EXCEPT !.status = "failed",
                !.progress_phase = "failed",
                !.progress_pct = 0,
                !.progress_message = <<"Import processing failed">>,
                !.failed_error = Some(error_text),
                !.completed = TRUE]

mark_import_failed(row, error_text) ==
    [row EXCEPT !.status = "failed",
                !.progress_phase = "failed",
                !.progress_pct = 100,
                !.progress_message = <<"Import processing failed">>,
                !.failed_error = Some(error_text),
                !.completed = TRUE]

\* The UPDATE that ends run_post_import_processing.
finalize_import(row, metrics) ==
    [row EXCEPT !.status = "ready",
                !.progress_phase = "complete",
                !.progress_pct = 100,
                !.progress_message = <<"Import processing complete">>,
                !.parse_metrics_json = metrics,
                !.failed_error = None,
                !.completed = TRUE]

TimedOutError ==
    <<"level normalization timed out after", LEVEL_NORMALIZE_TIMEOUT_SECS, "s">>
PanickedError == <<"level normalization worker panicked">>

\* What extract_from_level_sav_with_progress returns for a Level.sav:
\* nothing, or a player whose Players/*.sav is in the archive, a pal and the
\* assignment of the pal to a base.
ExtractedSamples ==
    LET player == [structs |-> TRUE, instance_id |-> Some(1), player_uid |-> Some(1),
                   raw |-> "ok", tail |-> 20, group |-> 2, save_parameter |-> TRUE,
                   is_player |-> "true"]
        pal == [player EXCEPT !.instance_id = Some(2), !.player_uid = Some(0),
                              !.is_player = "false"]
        one == get_guid_uid(1)
        two == get_guid_uid(2)
    IN  {[players |-> <<>>, pals |-> <<>>, assignments |-> <<>>],
         [players |-> <<ExtractedPlayer(player)>>,
          pals |-> <<ExtractedPal(pal)>>,
          assignments |->
              emit_assignments(<<one>>, (one :> one),
                               (one :> <<[slot_index |-> 0, instance_id |-> two]>>))]}

\* The hint-learning passes of a worker of the model.
MaxWorkerPasses == 1

\* How the worker ends: with a result ("ok"), with the error of one of its
\* stages, or by a panic.
WorkerPlans ==
    {w \in [outcome : {"ok", "decode", "gvas", "world", "charmap", "panic"},
            passes : 0..MaxWorkerPasses,
            data : ExtractedSamples] :
        /\ w.outcome # "ok" => w.data.players = <<>>
        /\ w.outcome \in {"decode", "panic"} => w.passes = 0}

\* The progress events extract_from_level_sav_with_progress emits, in order.
worker_events(w) ==
    LET total == Len(w.data.players) + Len(w.data.pals)
        decode == <<make_stage_progress(76, <<"Decoding Level.sav wrapper payload">>)>>
        parse == <<make_stage_progress(77, <<"Parsing Level.sav GVAS root">>),
                   make_stage_progress(78, <<"Applying mirrored PALWORLD_TYPE_HINTS">>)>>
                 \o [k \in 1..w.passes |-> hint_pass_progress(k)]
        raw == <<make_stage_progress(89, <<"Decoding planner raw domains">>)>>
        walk == <<emit_progress(0, 0, 0, 0, total)>>
                \o (IF total = 0 THEN <<>>
                    ELSE <<emit_progress(total, total, Len(w.data.players),
                                         Len(w.data.pals), total)>>)
    IN  CASE w.outcome \in {"decode", "panic"} -> decode
          [] w.outcome = "gvas" -> decode \o parse
          [] w.outcome \in {"world", "charmap"} -> decode \o parse \o raw
          [] OTHER -> decode \o parse \o raw \o walk

select_arm_error_is_fatal(branch, outcome) ==
    IF branch = "timeout" THEN "return_err"
    ELSE IF outcome = "ok" THEN "break_some"
    ELSE "return_err"

select_arm_timeout_skips(branch, outcome) ==
    IF branch = "timeout" THEN "break_none"
    ELSE IF outcome = "ok" THEN "break_some"
    ELSE IF outcome = "panic" THEN "return_err"
    ELSE "break_none"

\* The arms of the select loop that end it: the worker joined with `outcome`,
\* or the timeout.
select_arm(branch, outcome) ==
    IF branch = "timeout" THEN "return_err"
    ELSE IF outcome = "ok" THEN "break_some"
    ELSE IF outcome = "panic" THEN "return_err"
    ELSE "break_none"

InitImport ==
    /\ DetectIdle /\ HintsIdle /\ AssignIdle /\ WalkIdle
    /\ CallsIdle /\ WorkersIdle /\ ZipIdle /\ CodecIdle /\ FnIdle
    /\ RowsIdle
    /\ InspectIdle
    /\ ProgressIdle
    /\ UploadIdle
    /\ seedFiles \in {{}, {[digits |-> 1, hex32 |-> TRUE, upper |-> FALSE]},
                      {[digits |-> 1, hex32 |-> FALSE, upper |-> TRUE]}}
    /\ workerPlan \in WorkerPlans
    /\ importRow = NoRow
    /\ planner_players = EmptyMap /\ planner_pals = EmptyMap
    /\ planner_base_assignments = EmptyMap
    /\ pcTask = "request" /\ pcWorker = "none" /\ workerSent = 0
    /\ progressQueue = <<>> /\ aborted = FALSE /\ joined = "none"
    /\ extracted = None /\ last_processed_report = None
    /\ last_progress_pct = None /\ last_progress_message = None

loopVars == <<last_processed_report, last_progress_pct,
              last_progress_message>>
tableVars == <<planner_players, planner_pals, planner_base_assignments>>
inputVars == <<seedFiles, workerPlan>>
workerVars == <<pcWorker, workerSent>>

\* The import is marked but the task goes on.
TaskFails_and_goes_on(error_text) ==
    /\ importRow' = mark_import_failed(importRow, error_text)
    /\ pcTask' = pcTask

\* The task returns Err and spawn_post_import_processing marks the import.
TaskFails(error_text) ==
    /\ importRow' = mark_import_failed(importRow, error_text)
    /\ pcTask' = "done"

\* run_import_zip for an archive it accepts: its transaction and the spawn.
RunImportZip ==
    /\ pcTask = "request"
    /\ UNCHANGED exceptImport
    /\ importRow' = [status |-> "processing",
                     progress_phase |-> "queued_decode",
                     progress_pct |-> 35,
                     progress_message |-> <<"Queued decode and normalization">>,
                     parse_metrics_json |-> None,
                     failed_error |-> None,
                     completed |-> FALSE]
    /\ planner_players' = UpsertAll(upsert_planner_player, planner_players,
                                    SeedRows(seedFiles))
    /\ pcTask' = "spawned"
    /\ UNCHANGED <<inputVars, planner_pals, planner_base_assignments, workerVars,
                   progressQueue, aborted, joined, extracted, loopVars>>

\* run_post_import_processing: the first update.
StartProcessing ==
    /\ pcTask = "spawned"
    /\ UNCHANGED exceptImport
    /\ importRow' = update_import_progress(importRow, "decoding_variants", 50,
                                           <<"Decoding SAV wrappers and GVAS headers">>)
    /\ pcTask' = "inspecting"
    /\ UNCHANGED <<inputVars, tableVars, workerVars, progressQueue, aborted, joined,
                   extracted, loopVars>>

\* The loop over the save files; then the update to 75 and the spawn of the
\* normalization worker.
InspectFiles ==
    /\ pcTask = "inspecting"
    /\ UNCHANGED exceptImport
    /\ \E result \in {"ok", "panicked", "timed_out"} :
         CASE result = "panicked" ->
                /\ TaskFails(<<"variant inspect worker panicked">>)
                /\ UNCHANGED workerVars
           [] result = "timed_out" ->
                /\ TaskFails(<<"variant inspect timed out after",
                               VARIANT_INSPECT_TIMEOUT_SECS, "s">>)
                /\ UNCHANGED workerVars
           [] OTHER ->
                /\ importRow' = update_import_progress(
                                    importRow, "normalizing_entities", 75,
                                    <<"Extracting planner entities from Level.sav">>)
                /\ pcTask' = "normalizing"
                /\ pcWorker' = "running"
                /\ UNCHANGED workerSent
    /\ UNCHANGED <<inputVars, tableVars, progressQueue, aborted, joined, extracted,
                   loopVars>>

\* The worker emits its next progress event: progress_tx.send(progress),
\* whose error, once the receiver is gone, is dropped.
WorkerEmit ==
    /\ pcWorker = "running" /\ workerSent < Len(worker_events(workerPlan))
    /\ UNCHANGED exceptImport
    /\ workerSent' = workerSent + 1
    /\ progressQueue' = IF pcTask = "normalizing"
                        THEN Append(progressQueue,
                                    worker_events(workerPlan)[workerSent + 1])
                        ELSE progressQueue
    /\ UNCHANGED <<inputVars, importRow, tableVars, pcTask, pcWorker, aborted, joined,
                   extracted, loopVars>>

\* The worker is through: abort() does not stop a blocking task.
WorkerReturn ==
    /\ pcWorker = "running" /\ workerSent = Len(worker_events(workerPlan))
    /\ UNCHANGED exceptImport
    /\ pcWorker' = "finished"
    /\ UNCHANGED <<inputVars, importRow, tableVars, pcTask, workerSent, progressQueue,
                   aborted, joined, extracted, loopVars>>

\* select!: maybe_progress = progress_rx.recv()
RecvProgress ==
    /\ pcTask = "normalizing" /\ progressQueue # <<>>
    /\ UNCHANGED exceptImport
    /\ progressQueue' = Tail(progressQueue)
    /\ \E elapsed \in BOOLEAN :
         LET progress == Head(progressQueue)
             force_report ==
                 /\ progress.total_character_entries > 0
                 /\ progress.processed_character_entries
                       = progress.total_character_entries
             progress_pct ==
                 Clamp(IF progress.progress_pct_hint = None THEN 75
                       ELSE Unwrap(progress.progress_pct_hint), 75, 98)
             since == Max(0, progress.processed_character_entries
                             - (IF last_processed_report = None THEN 0
                                ELSE Unwrap(last_processed_report)))
             should_report ==
                 \/ force_report
                 \/ last_processed_report = None
                 \/ last_progress_pct # Some(progress_pct)
                 \/ since >= 256
                 \/ elapsed /\ last_progress_message # Some(progress.message)
         IN  IF should_report
             THEN /\ importRow' = update_import_progress(
                                      importRow, "normalizing_entities",
                                      progress_pct, progress.message)
                  /\ last_processed_report' =
                        Some(progress.processed_character_entries)
                  /\ last_progress_pct' = Some(progress_pct)
                  /\ last_progress_message' = Some(progress.message)
             ELSE UNCHANGED <<importRow, loopVars>>
    /\ UNCHANGED <<inputVars, tableVars, pcTask, workerVars, aborted, joined,
                   extracted>>

\* select!: joined = &mut normalize_worker
JoinWorker ==
    /\ pcTask = "normalizing" /\ pcWorker = "finished"
    /\ UNCHANGED exceptImport
    /\ joined' = workerPlan.outcome
    /\ LET arm == select_arm("joined", workerPlan.outcome)
       IN  CASE arm = "break_some" ->
                  /\ extracted' = Some(workerPlan.data)
                  /\ pcTask' = "persist"
                  /\ UNCHANGED <<importRow, aborted>>
             [] arm = "break_none" ->
                  /\ extracted' = None
                  /\ pcTask' = "finalize"
                  /\ UNCHANGED <<importRow, aborted>>
             [] OTHER ->
                  /\ TaskFails(PanickedError)
                  /\ UNCHANGED <<extracted, aborted>>
    /\ UNCHANGED <<inputVars, tableVars, workerVars, progressQueue, loopVars>>

\* select!: _ = &mut timeout
NormalizeTimeout ==
    /\ pcTask = "normalizing"
    /\ UNCHANGED exceptImport
    /\ joined' = "timeout"
    /\ LET arm == select_arm("timeout", "none")
       IN  CASE arm = "return_err" ->
                  /\ aborted' = TRUE
                  /\ TaskFails(TimedOutError)
                  /\ UNCHANGED extracted
             [] OTHER ->
                  /\ extracted' = None
                  /\ pcTask' = "finalize"
                  /\ UNCHANGED <<importRow, aborted>>
    /\ UNCHANGED <<inputVars, tableVars, workerVars, progressQueue, loopVars>>

\* persist_normalized_extract: one transaction.
PersistNormalizedExtract ==
    /\ pcTask = "persist"
    /\ UNCHANGED exceptImport
    /\ planner_players' = UpsertAll(upsert_planner_player, planner_players,
                                    Unwrap(extracted).players)
    /\ planner_pals' = UpsertAll(upsert_planner_pal, planner_pals,
                                 Unwrap(extracted).pals)
    /\ planner_base_assignments' =
          UpsertAll(upsert_planner_assignment, planner_base_assignments,
                    Unwrap(extracted).assignments)
    /\ pcTask' = "finalize"
    /\ UNCHANGED <<inputVars, importRow, workerVars, progressQueue, aborted, joined,
                   extracted, loopVars>>

\* The UPDATE to 'ready' and the return of the task.
FinalizeImport ==
    /\ pcTask = "finalize"
    /\ UNCHANGED exceptImport
    /\ importRow' = finalize_import(importRow,
                                    IF extracted = None THEN None
                                    ELSE Some("metrics"))
    /\ pcTask' = "done"
    /\ UNCHANGED <<inputVars, tableVars, workerVars, progressQueue, aborted, joined,
                   extracted, loopVars>>

Init == InitImport

Next ==
    \/ RunImportZip
    \/ StartProcessing
    \/ InspectFiles
    \/ WorkerEmit
    \/ WorkerReturn
    \/ RecvProgress
    \/ JoinWorker
    \/ NormalizeTimeout
    \/ PersistNormalizedExtract
    \/ FinalizeImport

Spec == Init /\ [][Next]_vars

\* The outcomes with which extract_from_level_sav_with_progress returns Err.
NormalizationErrors == {"decode", "gvas", "world", "charmap"}

\* No planner row of the import comes from the normalization of Level.sav.
NoNormalizedRows ==
    /\ \A k \in DOMAIN planner_players : planner_players[k].raw_file_ref # LevelFile
    /\ planner_pals = EmptyMap
    /\ planner_base_assignments = EmptyMap

SeededPlayers == UpsertAll(upsert_planner_player, EmptyMap, SeedRows(seedFiles))

\* C2 as stated: once the timeout has fired, the import is 'failed' with the
\* timeout error and holds no planner row at all.
C2_TimeoutLeavesNoPlannerRows ==
    joined = "timeout" =>
        /\ importRow.status = "failed"
        /\ importRow.progress_phase = "failed"
        /\ importRow.failed_error = Some(TimedOutError)
        /\ planner_players = EmptyMap
        /\ planner_pals = EmptyMap
        /\ planner_base_assignments = EmptyMap

\* C2, amended: once the timeout has fired, the task is over, the import is
\* and stays 'failed' at 100 with the timeout error, whatever the aborted
\* worker still does, and its planner rows are those run_import_zip seeded
\* from the Players/*.sav paths: no pal, no base assignment, no row of the
\* normalization.
C2_TimeoutLeavesSeedRowsOnly ==
    joined = "timeout" =>
        /\ pcTask = "done"
        /\ aborted
        /\ importRow.status = "failed"
        /\ importRow.progress_phase = "failed"
        /\ importRow.progress_pct = 100
        /\ importRow.failed_error = Some(TimedOutError)
        /\ planner_players = SeededPlayers
        /\ NoNormalizedRows

C2_Witness ==
    /\ joined = "timeout"
    /\ pcWorker = "finished"
    /\ workerPlan.outcome = "ok"
    /\ workerPlan.data.players # <<>>
    /\ planner_players # EmptyMap
    /\ importRow.status = "failed"

(***************************************************************************)
(* save/zip.rs, and what run_import_zip does with the archive before it    *)
(* writes anything (api/handlers/import_zip.rs).                           *)
(*                                                                         *)
(* A string is the sequence of its characters, so that starts_with,        *)
(* ends_with, the count of '/' and the byte order of strings are what the  *)
(* code computes.                                                          *)
(***************************************************************************)

\* The byte of a character, for the characters the names below are made of.
Byte(c) ==
    CASE c = "-" -> 45 [] c = "." -> 46 [] c = "/" -> 47 [] c = ":" -> 58
      [] c = "C" -> 67 [] c = "L" -> 76 [] c = "M" -> 77 [] c = "P" -> 80
      [] c = "\\" -> 92 [] c = "a" -> 97 [] c = "b" -> 98 [] c = "e" -> 101
      [] c = "l" -> 108 [] c = "p" -> 112 [] c = "r" -> 114 [] c = "s" -> 115
      [] c = "t" -> 116 [] c = "v" -> 118 [] c = "x" -> 120 [] c = "y" -> 121

\* a < b in the order of str::cmp: byte by byte, a proper prefix first.
RECURSIVE StrLess(_, _)
StrLess(a, b) ==
    IF b = <<>> THEN FALSE
    ELSE IF a = <<>> THEN TRUE
    ELSE IF Head(a) = Head(b) THEN StrLess(Tail(a), Tail(b))
    ELSE Byte(Head(a)) < Byte(Head(b))

starts_with(s, prefix) ==
    Len(prefix) <= Len(s) /\ SubSeq(s, 1, Len(prefix)) = prefix

ends_with(s, suffix) ==
    Len(suffix) <= Len(s) /\ SubSeq(s, Len(s) - Len(suffix) + 1, Len(s)) = suffix

\* s.matches(c).count()
CountOf(s, c) == Cardinality({k \in DOMAIN s : s[k] = c})

\* s.replace(from, to) for single characters.
Replace(s, from, to) == [k \in DOMAIN s |-> IF s[k] = from THEN to ELSE s[k]]

\* The pieces of s between the separators, the empty ones included.
RECURSIVE SplitOn(_, _)
SplitOn(s, sep) ==
    IF \A k \in DOMAIN s : s[k] # sep THEN <<s>>
    ELSE LET k == CHOOSE k \in DOMAIN s :
                      s[k] = sep /\ \A j \in 1..(k - 1) : s[j] # sep
         IN  <<SubSeq(s, 1, k - 1)>> \o SplitOn(SubSeq(s, k + 1, Len(s)), sep)

RECURSIVE JoinWith(_, _)
JoinWith(pieces, sep) ==
    IF pieces = <<>> THEN <<>>
    ELSE IF Len(pieces) = 1 THEN pieces[1]
    ELSE pieces[1] \o <<sep>> \o JoinWith(Tail(pieces), sep)

LevelSavName == <<"L", "e", "v", "e", "l", ".", "s", "a", "v">>
PlayersDir == <<"P", "l", "a", "y", "e", "r", "s", "/">>
PlayerDir == <<"P", "l", "a", "y", "e", "r", "/">>
SavSuffix == <<".", "s", "a", "v">>

\* Path::new(normalized).components() of std: on a Windows target a leading
\* drive letter and colon is a Prefix; a leading '/' is the RootDir; empty
\* pieces and "." are dropped, except a leading "." which is CurDir; ".."
\* is ParentDir; anything else is Normal.
Components(normalized) ==
    LET hasPrefix == /\ platform = "windows"
                     /\ Len(normalized) >= 2
                     /\ normalized[2] = ":"
        rest == IF hasPrefix THEN SubSeq(normalized, 3, Len(normalized))
                ELSE normalized
        hasRoot == rest # <<>> /\ rest[1] = "/"
        pieces == SplitOn(rest, "/")
        RECURSIVE Body(_, _)
        Body(ps, first) ==
            IF ps = <<>> THEN <<>>
            ELSE LET piece == Head(ps)
                     here ==
                         IF piece = <<>> THEN <<>>
                         ELSE IF piece = <<".">>
                         THEN (IF first /\ ~hasRoot /\ ~hasPrefix
                               THEN <<[kind |-> "CurDir", value |-> piece]>>
                               ELSE <<>>)
                         ELSE IF piece = <<".", ".">>
                         THEN <<[kind |-> "ParentDir", value |-> piece]>>
                         ELSE <<[kind |-> "Normal", value |-> piece]>>
                 IN  here \o Body(Tail(ps), FALSE)
    IN  (IF hasPrefix
         THEN <<[kind |-> "Prefix", value |-> SubSeq(normalized, 1, 2)]>>
         ELSE <<>>)
        \o (IF hasRoot THEN <<[kind |-> "RootDir", value |-> <<"/">>]>> ELSE <<>>)
        \o Body(pieces, TRUE)

UnsafePathError == "ZIP entry path is unsafe"
EmptyPathError == "ZIP entry path is empty"
NoFilesError == "ZIP archive contains no files"

UnsafeKinds == {"Prefix", "RootDir", "ParentDir"}

\* sanitize_zip_path with ParentDir left out of the rejected components.
sanitize_zip_path_keeps_parent(raw) ==
    LET components == Components(Replace(raw, "\\", "/"))
        kept == SelectSeq(components, LAMBDA c : c.kind \in {"Normal", "ParentDir"})
        cleaned == JoinWith([k \in DOMAIN kept |-> kept[k].value], "/")
    IN  IF \E k \in DOMAIN components : components[k].kind \in {"Prefix", "RootDir"}
        THEN Err(UnsafePathError)
        ELSE IF cleaned = <<>> THEN Err(EmptyPathError)
        ELSE Ok(cleaned)

sanitize_zip_path(raw) ==
    LET components == Components(Replace(raw, "\\", "/"))
        normal == SelectSeq(components, LAMBDA c : c.kind = "Normal")
        cleaned == JoinWith([k \in DOMAIN normal |-> normal[k].value], "/")
    IN  IF \E k \in DOMAIN components : components[k].kind \in UnsafeKinds
        THEN Err(UnsafePathError)
        ELSE IF cleaned = <<>> THEN Err(EmptyPathError)
        ELSE Ok(cleaned)

\* ZipFile::is_dir of the zip crate: the name ends with a separator.
is_dir(raw) == raw # <<>> /\ raw[Len(raw)] \in {"/", "\\"}

\* parse_zip_entries over the names of the archive, in the archive's order:
\* directories are passed over, the first name sanitize_zip_path refuses
\* ends the call, and so does an archive without a file.
RECURSIVE ReadEntries(_, _)
ReadEntries(names, acc) ==
    IF names = <<>>
    THEN (IF acc = <<>> THEN Err(NoFilesError) ELSE Ok(acc))
    ELSE IF is_dir(Head(names)) THEN ReadEntries(Tail(names), acc)
    ELSE LET path == sanitize_zip_path(Head(names))
         IN  IF path.ok
             THEN ReadEntries(Tail(names), Append(acc, path.val))
             ELSE path

parse_zip_entries(names) == ReadEntries(names, <<>>)

\* The names the entries of an archive are drawn from: world files at four
\* roots, a name that only ends like Level.sav, a file of Players/ that is
\* no save, two names that sanitize to the path of another, names with a
\* parent, a root and a drive, a name that is empty once cleaned, and two
\* directories.
RawNames ==
    <<
      <<"L", "e", "v", "e", "l", ".", "s", "a", "v">>,
      <<"P", "l", "a", "y", "e", "r", "s", "/", "p", ".", "s", "a", "v">>,
      <<"P", "l", "a", "y", "e", "r", "/", "p", ".", "s", "a", "v">>,
      <<"a", "/", "L", "e", "v", "e", "l", ".", "s", "a", "v">>,
      <<"a", "/", "P", "l", "a", "y", "e", "r", "s", "/", "p", ".", "s", "a", "v">>,
      <<"a", "/", "P", "l", "a", "y", "e", "r", "/", "p", ".", "s", "a", "v">>,
      <<"b", "/", "L", "e", "v", "e", "l", ".", "s", "a", "v">>,
      <<"b", "/", "P", "l", "a", "y", "e", "r", "s", "/", "p", ".", "s", "a", "v">>,
      <<"a", "/", "b", "/", "L", "e", "v", "e", "l", ".", "s", "a", "v">>,
      <<"a", "/", "b", "/", "P", "l", "a", "y", "e", "r", "s", "/", "p", ".", "s", "a", "v">>,
      <<"a", "/", "M", "y", "L", "e", "v", "e", "l", ".", "s", "a", "v">>,
      <<"a", "/", "P", "l", "a", "y", "e", "r", "s", "/", "p", ".", "t", "x", "t">>,
      <<".", "/", "a", "/", "L", "e", "v", "e", "l", ".", "s", "a", "v">>,
      <<"a", "\\", "P", "l", "a", "y", "e", "r", "s", "\\", "p", ".", "s", "a", "v">>,
      <<".", ".", "/", "L", "e", "v", "e", "l", ".", "s", "a", "v">>,
      <<"/", "L", "e", "v", "e", "l", ".", "s", "a", "v">>,
      <<"C", ":", "/", "L", "e", "v", "e", "l", ".", "s", "a", "v">>,
      <<".">>,
      <<"a", "/">>,
      <<".", ".", "/", "b", "/">>
    >>

NoLevelError == "ZIP does not contain Level.sav in any path"
PlayerDirError == "ZIP uses Player/ directory; only Players/ is supported"
NoValidRootError ==
    "ZIP does not contain a valid world root with Level.sav and Players/*.sav"

\* prefixed(root, suffix)
prefixed(root, suffix) ==
    IF root = <<>> THEN suffix ELSE root \o <<"/">> \o suffix

\* Path::new(path).parent() of a sanitized path, as the string the code
\* makes of it: what is before the last '/', or the empty string.
parent(path) ==
    LET pieces == SplitOn(path, "/")
    IN  JoinWith(SubSeq(pieces, 1, Len(pieces) - 1), "/")

\* The comparator handed to sort_by, with the depth left out.
root_order_by_name(a, b) == StrLess(a, b)

\* The comparator handed to sort_by: a comes before b.
root_order(a, b) ==
    LET depth_a == CountOf(a, "/")
        depth_b == CountOf(b, "/")
    IN  depth_a < depth_b \/ (depth_a = depth_b /\ StrLess(a, b))

\* ordered: the candidates as sort_by leaves them.
RECURSIVE SortRoots(_)
SortRoots(candidates) ==
    IF candidates = {} THEN <<>>
    ELSE LET first == CHOOSE r \in candidates :
                          \A o \in candidates \ {r} : root_order(r, o)
         IN  <<first>> \o SortRoots(candidates \ {first})

has_level(paths, root) == prefixed(root, LevelSavName) \in paths

has_players(paths, root) ==
    \E path \in paths :
        starts_with(path, prefixed(root, PlayersDir)) /\ ends_with(path, SavSuffix)

has_player_singular(paths, root) ==
    \E path \in paths :
        starts_with(path, prefixed(root, PlayerDir)) /\ ends_with(path, SavSuffix)

\* The error of detect_world_root when its loop has found no root, with the
\* flag of the loop left out.
no_root_error_unflagged(found_player_singular_only) == NoValidRootError

\* The error of detect_world_root when its loop has found no root.
no_root_error(found_player_singular_only) ==
    IF found_player_singular_only THEN PlayerDirError ELSE NoValidRootError

\* The loop of detect_world_root over the ordered candidates.
RECURSIVE ScanRoots(_, _, _)
ScanRoots(ordered, paths, found_player_singular_only) ==
    IF ordered = <<>> THEN Err(no_root_error(found_player_singular_only))
    ELSE LET root == Head(ordered)
             root_has_level == has_level(paths, root)
             root_has_players == has_players(paths, root)
             root_has_singular == has_player_singular(paths, root)
         IN  IF root_has_level /\ root_has_players /\ ~root_has_singular THEN Ok(root)
             ELSE ScanRoots(Tail(ordered), paths,
                            found_player_singular_only
                                \/ (root_has_level /\ root_has_singular /\ ~root_has_players))

detect_world_root(es) ==
    LET paths == {es[k] : k \in DOMAIN es}
        candidates == {parent(path) : path \in {p \in paths : ends_with(p, LevelSavName)}}
    IN  IF candidates = {} THEN Err(NoLevelError)
        ELSE ScanRoots(SortRoots(candidates), paths, FALSE)

\* strip_root_prefix(root, full_path)
strip_root_prefix(root, full_path) ==
    IF root = <<>> THEN Some(full_path)
    ELSE IF starts_with(full_path, root \o <<"/">>)
    THEN Some(SubSeq(full_path, Len(root) + 2, Len(full_path)))
    ELSE None

DuplicatePathError == "ZIP contains duplicate file after root stripping"
EmptyRootError == "detected world root does not contain any files"
MissingLevelError == "world root is missing required Level.sav"
MissingPlayersError == "world root is missing required Players/*.sav files"

\* ApiError::bad_request(..): the status and the message, the message as the
\* text the call site puts first and the error it wraps.
bad_request(context, text) == [status |-> 400, context |-> context, text |-> text]

\* rooted_entries.insert(relative_path, bytes).is_some(), the map never told
\* apart from an empty one.
rooted_insert_never_some(rooted, relative_path) == FALSE

\* rooted_entries.insert(relative_path, bytes).is_some()
rooted_insert_is_some(rooted, relative_path) == relative_path \in rooted

\* The loop of run_import_zip that fills rooted_entries: the map as the loop
\* leaves it, and the path that ended the loop, if one did.
RECURSIVE RootEntries(_, _, _)
RootEntries(es, root, rooted) ==
    IF es = <<>> THEN [rooted |-> rooted, duplicate |-> None]
    ELSE LET relative_path == strip_root_prefix(root, Head(es))
         IN  IF relative_path = None \/ relative_path = Some(<<>>)
             THEN RootEntries(Tail(es), root, rooted)
             ELSE IF rooted_insert_is_some(rooted, Unwrap(relative_path))
             THEN [rooted |-> rooted, duplicate |-> relative_path]
             ELSE RootEntries(Tail(es), root, rooted \cup {Unwrap(relative_path)})

\* The checks of run_import_zip on rooted_entries, in their order.
rooted_entries_error(rooted) ==
    IF rooted = {} THEN Some(EmptyRootError)
    ELSE IF \E path \in rooted : starts_with(path, PlayerDir)
    THEN Some(PlayerDirError)
    ELSE IF LevelSavName \notin rooted THEN Some(MissingLevelError)
    ELSE IF ~\E path \in rooted :
                starts_with(path, PlayersDir) /\ ends_with(path, SavSuffix)
    THEN Some(MissingPlayersError)
    ELSE None

\* The entries an archive may hold.
MaxEntries == 4

\* The names of an archive's entries, in the order of RawNames.
RECURSIVE NamesFrom(_, _)
NamesFrom(indexes, k) ==
    IF k > Len(RawNames) THEN <<>>
    ELSE (IF k \in indexes THEN <<RawNames[k]>> ELSE <<>>) \o NamesFrom(indexes, k + 1)

ArchiveNames == NamesFrom(archive, 1)

Archives ==
    {S \in SUBSET (1..Len(RawNames)) : Cardinality(S) >= 1 /\ Cardinality(S) <= MaxEntries}

InitZip ==
    /\ DetectIdle /\ HintsIdle /\ AssignIdle /\ WalkIdle
    /\ ImportIdle /\ CallsIdle /\ WorkersIdle /\ CodecIdle /\ FnIdle
    /\ RowsIdle
    /\ InspectIdle
    /\ ProgressIdle
    /\ UploadIdle
    /\ platform \in {"unix", "windows"}
    /\ archive \in Archives
    /\ entries = NoResult /\ world_root_path = NoResult /\ rooted_entries = {}
    /\ zipRejection = None /\ zipPersisted = FALSE
    /\ pcZip = "request"

Rejects(error) ==
    /\ zipRejection' = Some(error)
    /\ pcZip' = "rejected"
    /\ UNCHANGED zipPersisted

\* run_import_zip: parse_zip_entries(&zip_bytes)
ParseZipEntries ==
    /\ pcZip = "request"
    /\ UNCHANGED exceptZip
    /\ entries' = parse_zip_entries(ArchiveNames)
    /\ IF entries'.ok
       THEN pcZip' = "parsed" /\ UNCHANGED <<zipRejection, zipPersisted>>
       ELSE Rejects(bad_request("invalid ZIP content", entries'.err))
    /\ UNCHANGED <<platform, archive, world_root_path, rooted_entries>>

\* run_import_zip: detect_world_root(&entries)
DetectWorldRoot ==
    /\ pcZip = "parsed"
    /\ UNCHANGED exceptZip
    /\ world_root_path' = detect_world_root(entries.val)
    /\ IF world_root_path'.ok
       THEN pcZip' = "rooted" /\ UNCHANGED <<zipRejection, zipPersisted>>
       ELSE Rejects(bad_request("invalid world root", world_root_path'.err))
    /\ UNCHANGED <<platform, archive, entries, rooted_entries>>

\* run_import_zip: the loop that fills rooted_entries, the checks on it, and,
\* when they pass, the writes of the archive and of its rows.
RootAndPersist ==
    /\ pcZip = "rooted"
    /\ UNCHANGED exceptZip
    /\ LET loop == RootEntries(entries.val, world_root_path.val, {})
           error == rooted_entries_error(loop.rooted)
       IN  /\ rooted_entries' = loop.rooted
           /\ IF loop.duplicate # None
              THEN Rejects(bad_request("", DuplicatePathError))
              ELSE IF error # None
              THEN Rejects(bad_request("", Unwrap(error)))
              ELSE /\ zipPersisted' = TRUE
                   /\ pcZip' = "accepted"
                   /\ UNCHANGED zipRejection
    /\ UNCHANGED <<platform, archive, entries, world_root_path>>

NextZip ==
    \/ ParseZipEntries
    \/ DetectWorldRoot
    \/ RootAndPersist

SpecZip == InitZip /\ [][NextZip]_vars

\* ---- Claims about the world root and the rooted entries ----

\* The paths parse_zip_entries returned.
EntryPaths == {entries.val[k] : k \in DOMAIN entries.val}

\* The directories of a path, as tuples of names: the empty tuple is the
\* top of the archive.
RootSegments(root) == IF root = <<>> THEN <<>> ELSE SplitOn(root, "/")

DirectoryPrefixes ==
    UNION {{JoinWith(SubSeq(SplitOn(path, "/"), 1, n), "/") :
                n \in 0..(Len(SplitOn(path, "/")) - 1)} : path \in EntryPaths}

\* The file R/name is among the paths.
FileUnder(R, name) ==
    \E path \in EntryPaths : SplitOn(path, "/") = RootSegments(R) \o <<name>>

\* A path that begins with R/dir/ and ends with .sav is among the paths.
SavUnder(R, dir) ==
    \E path \in EntryPaths :
        LET segments == SplitOn(path, "/")
            under == RootSegments(R) \o <<dir>>
        IN  /\ Len(segments) > Len(under)
            /\ SubSeq(segments, 1, Len(under)) = under
            /\ ends_with(segments[Len(segments)], SavSuffix)

ValidRoot(R) ==
    /\ FileUnder(R, LevelSavName)
    /\ SavUnder(R, <<"P", "l", "a", "y", "e", "r", "s">>)
    /\ ~SavUnder(R, <<"P", "l", "a", "y", "e", "r">>)

ValidRoots == {R \in DirectoryPrefixes : ValidRoot(R)}

RootDepth(R) == Len(RootSegments(R))

RootDetected == entries.ok /\ pcZip \in {"rooted", "accepted", "rejected"}

\* C15: once detect_world_root has returned, its result is a directory R
\* with R/Level.sav among the paths, a path that begins with R/Players/ and
\* ends with .sav, and no path that begins with R/Player/ and ends with
\* .sav; no other such directory has fewer names, and none with as many
\* names is smaller byte for byte; the result is an error exactly when there
\* is no such directory.
C15_ShallowestValidRoot ==
    RootDetected =>
        IF ValidRoots = {} THEN ~world_root_path.ok
        ELSE /\ world_root_path.ok
             /\ world_root_path.val \in ValidRoots
             /\ \A other \in ValidRoots \ {world_root_path.val} :
                    \/ RootDepth(world_root_path.val) < RootDepth(other)
                    \/ /\ RootDepth(world_root_path.val) = RootDepth(other)
                       /\ StrLess(world_root_path.val, other)

\* A root was returned while a deeper directory whose name comes first was
\* valid too.
C15_Witness ==
    /\ RootDetected
    /\ world_root_path.ok
    /\ \E other \in ValidRoots :
           /\ RootDepth(world_root_path.val) < RootDepth(other)
           /\ StrLess(other, world_root_path.val)

\* A directory holds Level.sav and a save under Player/ but none under
\* Players/.
SingularOnlyRoots ==
    {R \in DirectoryPrefixes :
        /\ FileUnder(R, LevelSavName)
        /\ SavUnder(R, <<"P", "l", "a", "y", "e", "r">>)
        /\ ~SavUnder(R, <<"P", "l", "a", "y", "e", "r", "s">>)}

\* C16: once detect_world_root has returned, if no directory is a valid
\* world root and some directory holds Level.sav with a save under Player/
\* and none under Players/, the upload is rejected with the error that names
\* the Player/ directory, which is neither the error for an archive without
\* Level.sav nor the one for an archive without a valid root.
C16_SingularPlayerRejectedDistinctly ==
    (RootDetected /\ ValidRoots = {} /\ SingularOnlyRoots # {}) =>
        /\ pcZip = "rejected"
        /\ ~zipPersisted
        /\ zipRejection = Some(bad_request("invalid world root", PlayerDirError))
        /\ PlayerDirError \notin {NoLevelError, NoValidRootError}

C16_Witness ==
    /\ RootDetected /\ ValidRoots = {} /\ SingularOnlyRoots # {}
    /\ pcZip = "rejected"
    /\ \E R \in DirectoryPrefixes : FileUnder(R, LevelSavName) /\ R \notin SingularOnlyRoots

\* Two entries come to the same path once the detected root is stripped.
DuplicateAfterStripping ==
    /\ world_root_path.ok
    /\ \E k, l \in DOMAIN entries.val :
           /\ k # l
           /\ strip_root_prefix(world_root_path.val, entries.val[k]) # None
           /\ strip_root_prefix(world_root_path.val, entries.val[k])
                  = strip_root_prefix(world_root_path.val, entries.val[l])

\* C17: once run_import_zip has gone through the entries of an archive in
\* which two entries come to the same path after the root is stripped, the
\* upload is rejected with the duplicate-path error and nothing is
\* persisted; an upload is never accepted with fewer paths than it has
\* entries under the root.
C17_DuplicateRejected ==
    (entries.ok /\ pcZip \in {"accepted", "rejected"} /\ DuplicateAfterStripping) =>
        /\ pcZip = "rejected"
        /\ zipRejection = Some(bad_request("", DuplicatePathError))
        /\ ~zipPersisted

C17_Witness ==
    /\ entries.ok /\ pcZip = "rejected" /\ DuplicateAfterStripping
    /\ rooted_entries # {}

\* The names of a raw entry name, backslashes read as slashes.
RawSegments(raw) == SplitOn(Replace(raw, "\\", "/"), "/")

HasParentTraversal(raw) == \E k \in DOMAIN RawSegments(raw) : RawSegments(raw)[k] = <<".", ".">>

HasRootDirectory(raw) == raw # <<>> /\ Replace(raw, "\\", "/")[1] = "/"

HasDrivePrefix(raw) == Len(raw) >= 2 /\ raw[2] = ":"

ArchiveEntryNames == {RawNames[k] : k \in archive}

RetainedPathsSafe ==
    \A path \in rooted_entries :
        /\ path # <<>>
        /\ \A k \in DOMAIN SplitOn(path, "/") : SplitOn(path, "/")[k] # <<".", ".">>

HEX == <<"0", "1", "2", "3", "4", "5", "6", "7", "8", "9", "a", "b", "c", "d", "e", "f">>

\* to_hex with the two digits of a byte in the other order.
to_hex_low_first(bs) ==
    [k \in 1..(2 * Len(bs)) |->
        LET byte == bs[(k + 1) \div 2]
        IN  IF k % 2 = 1 THEN HEX[(byte % 16) + 1] ELSE HEX[(byte \div 16) + 1]]

\* to_hex: for each byte, HEX[byte >> 4] then HEX[byte & 0x0f].
to_hex(bs) ==
    [k \in 1..(2 * Len(bs)) |->
        LET byte == bs[(k + 1) \div 2]
        IN  IF k % 2 = 1 THEN HEX[(byte \div 16) + 1] ELSE HEX[(byte % 16) + 1]]

decode_nibble(c) ==
    CASE c = "0" -> Ok(0)
      [] c = "1" -> Ok(1)
      [] c = "2" -> Ok(2)
      [] c = "3" -> Ok(3)
      [] c = "4" -> Ok(4)
      [] c = "5" -> Ok(5)
      [] c = "6" -> Ok(6)
      [] c = "7" -> Ok(7)
      [] c = "8" -> Ok(8)
      [] c = "9" -> Ok(9)
      [] c = "a" -> Ok(10)
      [] c = "b" -> Ok(11)
      [] c = "c" -> Ok(12)
      [] c = "d" -> Ok(13)
      [] c = "e" -> Ok(14)
      [] c = "f" -> Ok(15)
      [] c = "A" -> Ok(10)
      [] c = "B" -> Ok(11)
      [] c = "C" -> Ok(12)
      [] c = "D" -> Ok(13)
      [] c = "E" -> Ok(14)
      [] c = "F" -> Ok(15)
      [] OTHER -> Err("invalid hex char")

\* from_hex: an odd length is refused, and so is the first character that is
\* no hex digit; each pair of digits is (hi << 4) | lo.
from_hex(hex) ==
    IF Len(hex) % 2 # 0 THEN Err("hex length must be even")
    ELSE LET nibbles == [k \in DOMAIN hex |-> decode_nibble(hex[k])]
             bad == {k \in DOMAIN hex : ~nibbles[k].ok}
         IN  IF bad # {}
             THEN nibbles[CHOOSE k \in bad : \A o \in bad : k <= o]
             ELSE Ok([i \in 1..(Len(hex) \div 2) |->
                        (nibbles[2 * i - 1].val * 16 + nibbles[2 * i].val) % 256])

passthrough_decode(bs) ==
    [codec_status |-> "passthrough",
     byte_len |-> Len(bs),
     original_bytes_hex |-> to_hex(bs)]

passthrough_encode(value) ==
    IF "original_bytes_hex" \in DOMAIN value
    THEN from_hex(value.original_bytes_hex)
    ELSE Err("missing original_bytes_hex")

\* The readers of a Cursor: each is given the bytes and the position, and
\* returns the value and the position after it, or an error.
Read(val, pos) == [ok |-> TRUE, val |-> val, pos |-> pos]

\* read_bytes(cursor, len)
read_bytes(bs, pos, len) ==
    IF pos + len <= Len(bs)
    THEN Read(SubSeq(bs, pos + 1, pos + len), pos + len)
    ELSE Err("failed to read bytes")

\* read_remaining(cursor)
read_remaining(bs, pos) == IF pos <= Len(bs) THEN SubSeq(bs, pos + 1, Len(bs)) ELSE <<>>

\* decode_guid: the sixteen bytes read_guid takes; the value is held as
\* those bytes rather than as the text normalize_guid makes of them.
decode_guid(bs, pos) ==
    IF pos + 16 <= Len(bs)
    THEN Read(SubSeq(bs, pos + 1, pos + 16), pos + 16)
    ELSE Err("failed to read guid")

\* decode_u8
decode_u8(bs, pos) ==
    IF pos + 1 <= Len(bs) THEN Read(bs[pos + 1], pos + 1)
    ELSE Err("failed to read u8")

\* decode_f32: four bytes, little endian; the value is held as the bytes.
decode_f32(bs, pos) ==
    IF pos + 4 <= Len(bs) THEN Read(SubSeq(bs, pos + 1, pos + 4), pos + 4)
    ELSE Err("failed to read f32")

\* The i32 of four bytes, little endian.
I32Le(b) ==
    (IF b[4] >= 128 THEN b[4] - 256 ELSE b[4]) * 16777216
        + b[3] * 65536 + b[2] * 256 + b[1]

\* decode_fstring: read_fstring of the gvas crate reads an i32 length, then
\* that many bytes of which the last is a zero terminator, or, for a
\* negative length, that many 16-bit units of which the last is zero; a
\* length of zero is the null string, which decode_fstring refuses.  The
\* value is held as the bytes before the terminator.
decode_fstring(bs, pos) ==
    IF pos + 4 > Len(bs) THEN Err("failed to read fstring")
    ELSE LET len == I32Le(SubSeq(bs, pos + 1, pos + 4))
             fits == len <= Len(bs) /\ len >= 0 - Len(bs)
             size == IF ~fits THEN 0 ELSE IF len < 0 THEN 2 * (0 - len) ELSE len
             unit == IF len < 0 THEN 2 ELSE 1
             start == pos + 4
         IN  IF len = 0 THEN Err("failed to read fstring: value was null")
             ELSE IF ~fits \/ start + size > Len(bs) THEN Err("failed to read fstring")
             ELSE IF \E k \in (start + size - unit + 1)..(start + size) : bs[k] # 0
             THEN Err("failed to read fstring")
             ELSE Read(SubSeq(bs, start + 1, start + size - unit), start + size)

\* rawdata::base_camp::decode
base_camp_decode(bs) ==
    LET id == decode_guid(bs, 0)
        name == decode_fstring(bs, id.pos)
        state == decode_u8(bs, name.pos)
        transform == read_bytes(bs, state.pos, 80)
        area_range == decode_f32(bs, transform.pos)
        group_id_belong_to == decode_guid(bs, area_range.pos)
        fast_travel_local_transform == read_bytes(bs, group_id_belong_to.pos, 80)
        owner_map_object_instance_id == decode_guid(bs, fast_travel_local_transform.pos)
    IN  IF ~id.ok THEN Err(id.err)
        ELSE IF ~name.ok THEN Err(name.err)
        ELSE IF ~state.ok THEN Err(state.err)
        ELSE IF ~transform.ok THEN Err(transform.err)
        ELSE IF ~area_range.ok THEN Err(area_range.err)
        ELSE IF ~group_id_belong_to.ok THEN Err(group_id_belong_to.err)
        ELSE IF ~fast_travel_local_transform.ok THEN Err(fast_travel_local_transform.err)
        ELSE IF ~owner_map_object_instance_id.ok THEN Err(owner_map_object_instance_id.err)
        ELSE Ok([codec_status |-> "decoded",
                 id |-> id.val,
                 name |-> name.val,
                 state |-> state.val,
                 transform_hex |-> to_hex(transform.val),
                 area_range |-> area_range.val,
                 group_id_belong_to |-> group_id_belong_to.val,
                 fast_travel_local_transform_hex |-> to_hex(fast_travel_local_transform.val),
                 owner_map_object_instance_id |-> owner_map_object_instance_id.val,
                 unknown_tail_hex |->
                     to_hex(read_remaining(bs, owner_map_object_instance_id.pos)),
                 original_bytes_hex |-> to_hex(bs)])

\* rawdata::worker_director::decode
worker_director_decode(bs) ==
    LET id == decode_guid(bs, 0)
        spawn_transform == read_bytes(bs, id.pos, 80)
        current_order_type == decode_u8(bs, spawn_transform.pos)
        current_battle_type == decode_u8(bs, current_order_type.pos)
        container_id == decode_guid(bs, current_battle_type.pos)
    IN  IF ~id.ok THEN Err(id.err)
        ELSE IF ~spawn_transform.ok THEN Err(spawn_transform.err)
        ELSE IF ~current_order_type.ok THEN Err(current_order_type.err)
        ELSE IF ~current_battle_type.ok THEN Err(current_battle_type.err)
        ELSE IF ~container_id.ok THEN Err(container_id.err)
        ELSE Ok([codec_status |-> "decoded",
                 id |-> id.val,
                 spawn_transform_hex |-> to_hex(spawn_transform.val),
                 current_order_type |-> current_order_type.val,
                 current_battle_type |-> current_battle_type.val,
                 container_id |-> container_id.val,
                 unknown_tail_hex |-> to_hex(read_remaining(bs, container_id.pos)),
                 original_bytes_hex |-> to_hex(bs)])

\* rawdata::character_container::decode
character_container_decode(bs) ==
    LET player_uid == decode_guid(bs, 0)
        instance_id == decode_guid(bs, player_uid.pos)
        permission_tribe_id == decode_u8(bs, instance_id.pos)
    IN  IF bs = <<>>
        THEN Ok([codec_status |-> "decoded",
                 is_empty |-> TRUE,
                 original_bytes_hex |-> <<>>])
        ELSE IF ~player_uid.ok THEN Err(player_uid.err)
        ELSE IF ~instance_id.ok THEN Err(instance_id.err)
        ELSE IF ~permission_tribe_id.ok THEN Err(permission_tribe_id.err)
        ELSE Ok([codec_status |-> "decoded",
                 is_empty |-> FALSE,
                 player_uid |-> player_uid.val,
                 instance_id |-> instance_id.val,
                 permission_tribe_id |-> permission_tribe_id.val,
                 unknown_tail_hex |-> to_hex(read_remaining(bs, instance_id.pos + 1)),
                 original_bytes_hex |-> to_hex(bs)])

\* rawdata::group::decode
group_decode(bs) == Ok(passthrough_decode(bs))

\* rawdata::character::decode and rawdata::work::decode: the original hex
\* blob stored verbatim.
character_decode(bs) == Ok(passthrough_decode(bs))

work_decode(bs) == Ok(passthrough_decode(bs))

Codecs ==
    {"PASSTHROUGH", "BASE_CAMP", "WORKER_DIRECTOR", "CHARACTER_CONTAINER",
     "CHARACTER", "GROUP", "WORK"}

\* RawCodec::decode of each codec
codec_decode(c, bs) ==
    CASE c = "PASSTHROUGH" -> Ok(passthrough_decode(bs))
      [] c = "BASE_CAMP" -> base_camp_decode(bs)
      [] c = "WORKER_DIRECTOR" -> worker_director_decode(bs)
      [] c = "CHARACTER_CONTAINER" -> character_container_decode(bs)
      [] c = "CHARACTER" -> character_decode(bs)
      [] c = "GROUP" -> group_decode(bs)
      [] c = "WORK" -> work_decode(bs)

\* RawCodec::encode of each codec: every one is passthrough_encode.
codec_encode(c, value) == passthrough_encode(value)

custom_registry ==
    (".worldSaveData.GroupSaveDataMap"
          :> "GROUP")
    @@ (".worldSaveData.CharacterSaveParameterMap.Value.RawData"
          :> "CHARACTER")
    @@ (".worldSaveData.ItemContainerSaveData.Value.RawData"
          :> "PASSTHROUGH")
    @@ (".worldSaveData.ItemContainerSaveData.Value.Slots.Slots.RawData"
          :> "PASSTHROUGH")
    @@ (".worldSaveData.CharacterContainerSaveData.Value.Slots.Slots.RawData"
          :> "CHARACTER_CONTAINER")
    @@ (".worldSaveData.DynamicItemSaveData.DynamicItemSaveData.RawData"
          :> "PASSTHROUGH")
    @@ (".worldSaveData.FoliageGridSaveDataMap.Value.ModelMap.Value.RawData"
          :> "PASSTHROUGH")
    @@ (".worldSaveData.FoliageGridSaveDataMap.Value.ModelMap.Value.InstanceDataMap.Value.RawData"
          :> "PASSTHROUGH")
    @@ (".worldSaveData.BaseCampSaveData.Value.RawData"
          :> "BASE_CAMP")
    @@ (".worldSaveData.BaseCampSaveData.Value.WorkerDirector.RawData"
          :> "WORKER_DIRECTOR")
    @@ (".worldSaveData.BaseCampSaveData.Value.WorkCollection.RawData"
          :> "PASSTHROUGH")
    @@ (".worldSaveData.BaseCampSaveData.Value.ModuleMap"
          :> "PASSTHROUGH")
    @@ (".worldSaveData.WorkSaveData"
          :> "WORK")
    @@ (".worldSaveData.MapObjectSaveData"
          :> "PASSTHROUGH")
    @@ (".worldSaveData.GuildExtraSaveDataMap.Value.GuildItemStorage.RawData"
          :> "PASSTHROUGH")
    @@ (".worldSaveData.GuildExtraSaveDataMap.Value.Lab.RawData"
          :> "PASSTHROUGH")

\* decode_raw(path, bytes)
decode_raw(path, bs) ==
    IF path \in DOMAIN custom_registry
    THEN LET value == codec_decode(custom_registry[path], bs)
         IN  IF value.ok THEN Ok([status |-> "decoded", value |-> value.val])
             ELSE value
    ELSE Ok([status |-> "passthrough", value |-> passthrough_decode(bs)])

\* The blobs: the bodies the three structured codecs read, with the fixed
\* fields filled with one byte and a name from FStrings, followed by a tail
\* and cut short by some bytes; the empty body gives the short blobs.
ByteValues == {0, 1, 171, 255}
MaxTailLen == 1
MaxCut == 2

Fill(n, v) == [k \in 1..n |-> v]

FStrings ==
    {<<1, 0, 0, 0, 0>>,
     <<2, 0, 0, 0, 65, 0>>,
     <<2, 0, 0, 0, 65, 66>>,
     <<0, 0, 0, 0>>,
     <<254, 255, 255, 255, 65, 0, 0, 0>>}

BaseCampBody(v, f) ==
    Fill(16, v) \o f \o <<v>> \o Fill(80, v) \o Fill(4, v)
        \o Fill(16, v) \o Fill(80, v) \o Fill(16, v)

WorkerDirectorBody(v) == Fill(16, v) \o Fill(80, v) \o <<v, v>> \o Fill(16, v)

CharacterContainerBody(v) == Fill(16, v) \o Fill(16, v) \o <<v>>

Bodies ==
    {BaseCampBody(v, f) : v \in ByteValues, f \in FStrings}
        \cup {WorkerDirectorBody(v) : v \in ByteValues}
        \cup {CharacterContainerBody(v) : v \in ByteValues}
        \cup {<<>>}

Tails == UNION {[1..n -> ByteValues] : n \in 0..MaxTailLen}

Blobs ==
    UNION {{SubSeq(whole, 1, Len(whole) - cut) :
                cut \in {c \in 0..MaxCut : c <= Len(whole)}} :
           whole \in {body \o tail : body \in Bodies, tail \in Tails}}

\* The paths decode_raw is called with: the keys of the registry, a key
\* without its leading dot, and a path of no codec.
RawPaths ==
    DOMAIN custom_registry
        \cup {"worldSaveData.BaseCampSaveData.Value.RawData",
              ".worldSaveData.BaseCampSaveData.Value.Transform"}

InitCodec ==
    /\ DetectIdle /\ HintsIdle /\ AssignIdle /\ WalkIdle
    /\ ImportIdle /\ CallsIdle /\ WorkersIdle /\ ZipIdle /\ FnIdle
    /\ RowsIdle
    /\ InspectIdle
    /\ ProgressIdle
    /\ UploadIdle
    /\ raw_bytes \in Blobs
    /\ raw_path = "" /\ raw_result = NoResult /\ codec = ""
    /\ codec_value = NoResult /\ codec_bytes = NoResult
    /\ pcCodec = "blob"

\* decode_raw(path, bytes), as normalize.rs calls it
DecodeRaw ==
    /\ pcCodec = "blob"
    /\ UNCHANGED exceptCodec
    /\ \E path \in RawPaths :
           /\ raw_path' = path
           /\ raw_result' = decode_raw(path, raw_bytes)
    /\ pcCodec' = "dispatched"
    /\ UNCHANGED <<raw_bytes, codec, codec_value, codec_bytes>>

\* codec.decode(bytes) of a codec of the registry
CodecDecode ==
    /\ pcCodec = "blob"
    /\ UNCHANGED exceptCodec
    /\ \E c \in Codecs :
           /\ codec' = c
           /\ codec_value' = codec_decode(c, raw_bytes)
    /\ pcCodec' = "decoded"
    /\ UNCHANGED <<raw_bytes, raw_path, raw_result, codec_bytes>>

\* codec.encode(&value) of the value the codec decoded
CodecEncode ==
    /\ pcCodec = "decoded"
    /\ codec_value.ok
    /\ UNCHANGED exceptCodec
    /\ codec_bytes' = codec_encode(codec, codec_value.val)
    /\ pcCodec' = "encoded"
    /\ UNCHANGED <<raw_bytes, raw_path, raw_result, codec, codec_value>>

NextCodec ==
    \/ DecodeRaw
    \/ CodecDecode
    \/ CodecEncode

SpecCodec == InitCodec /\ [][NextCodec]_vars

\* C19: once decode_raw has returned a value, its status is "decoded"
\* exactly when the path is that of a codec other than the passthrough
\* codec, and it is the codec_status of the value.
C19_StatusAgreesWithCodecStatus ==
    (pcCodec = "dispatched" /\ raw_result.ok) =>
        /\ raw_result.val.status = raw_result.val.value.codec_status
        /\ raw_result.val.status = "decoded"
               <=> /\ raw_path \in DOMAIN custom_registry
                   /\ custom_registry[raw_path] # "PASSTHROUGH"

\* The codecs the round trip is stated for.
RoundTripCodecs ==
    {"PASSTHROUGH", "BASE_CAMP", "WORKER_DIRECTOR", "CHARACTER_CONTAINER", "GROUP"}

\* C20: for the passthrough, BaseCamp, WorkerDirector, CharacterContainer
\* and Group codecs, once encode has returned for the value decode made of a
\* blob, what it returned is the blob; decode of the passthrough codec
\* never fails; from_hex(to_hex(b)) is b for every blob.
C20_EncodeInvertsDecode ==
    /\ (pcCodec \in {"decoded", "encoded"} /\ codec = "PASSTHROUGH") => codec_value.ok
    /\ (pcCodec = "encoded" /\ codec \in RoundTripCodecs) => codec_bytes = Ok(raw_bytes)
    /\ pcCodec # "idle" => from_hex(to_hex(raw_bytes)) = Ok(raw_bytes)

\* The BaseCamp codec has decoded a blob with a tail it does not read, of
\* bytes whose two digits differ, and encode has returned.
C20_Witness ==
    /\ pcCodec = "encoded"
    /\ codec = "BASE_CAMP"
    /\ codec_value.val.unknown_tail_hex # <<>>
    /\ \E k \in DOMAIN raw_bytes : raw_bytes[k] \div 16 # raw_bytes[k] % 16

\* ====================================================================
\* normalize_guid on texts (save/rawdata/mod.rs; save/normalize.rs has the
\* same body).  A text is a sequence of one-character strings.
\* ====================================================================

\* char::to_uppercase on the characters of the texts
UpperOf(c) ==
    CASE c = "a" -> "A"
      [] c = "b" -> "B"
      [] c = "c" -> "C"
      [] c = "d" -> "D"
      [] c = "e" -> "E"
      [] c = "f" -> "F"
      [] c = "g" -> "G"
      [] OTHER -> c

\* value.replace('-', "")
RemoveHyphens(value) == SelectSeq(value, LAMBDA c : c # "-")

\* str::to_uppercase
to_uppercase(value) == [k \in DOMAIN value |-> UpperOf(value[k])]

\* "0"
ShortZero == <<"0">>

\* "00000000000000000000000000000000"
ThirtyTwoZeros == [k \in 1..32 |-> "0"]

\* rawdata::normalize_guid
rawdata_normalize_guid(value) ==
    IF value = ShortZero THEN ThirtyTwoZeros
    ELSE to_uppercase(RemoveHyphens(value))

\* The texts: every text of at most MaxTextLen characters of TextChars, and
\* guids of 32 digits, plain and in groups of 8-4-4-4-12, with the digits
\* of one character or of two in turn.
TextChars == {"0", "9", "a", "F", "g", "-"}
MaxTextLen == 3

ShortTexts == UNION {[1..n -> TextChars] : n \in 0..MaxTextLen}

GuidDigits == {"0", "9", "a", "F"}

PlainGuid(x, y) == [k \in 1..32 |-> IF k % 2 = 1 THEN x ELSE y]

Hyphenated(plain) ==
    SubSeq(plain, 1, 8) \o <<"-">> \o SubSeq(plain, 9, 12) \o <<"-">>
        \o SubSeq(plain, 13, 16) \o <<"-">> \o SubSeq(plain, 17, 20) \o <<"-">>
        \o SubSeq(plain, 21, 32)

GuidTexts ==
    {PlainGuid(x, y) : x \in GuidDigits, y \in GuidDigits}
        \cup {Hyphenated(PlainGuid(x, y)) : x \in GuidDigits, y \in GuidDigits}

InitGuid ==
    /\ DetectIdle /\ HintsIdle /\ AssignIdle /\ WalkIdle
    /\ ImportIdle /\ CallsIdle /\ WorkersIdle /\ ZipIdle /\ CodecIdle
    /\ RowsIdle
    /\ InspectIdle
    /\ ProgressIdle
    /\ UploadIdle
    /\ fn_input \in ShortTexts \cup GuidTexts
    /\ fn_once = <<>> /\ fn_twice = <<>>
    /\ pcFn = "input"

\* normalize_guid(x)
NormalizeGuid ==
    /\ pcFn = "input"
    /\ UNCHANGED exceptFn
    /\ fn_once' = rawdata_normalize_guid(fn_input)
    /\ pcFn' = "once"
    /\ UNCHANGED <<fn_input, fn_twice>>

\* normalize_guid(normalize_guid(x))
NormalizeGuidAgain ==
    /\ pcFn = "once"
    /\ UNCHANGED exceptFn
    /\ fn_twice' = rawdata_normalize_guid(fn_once)
    /\ pcFn' = "twice"
    /\ UNCHANGED <<fn_input, fn_once>>

NextGuid ==
    \/ NormalizeGuid
    \/ NormalizeGuidAgain

SpecGuid == InitGuid /\ [][NextGuid]_vars

HexDigits ==
    {"0", "1", "2", "3", "4", "5", "6", "7", "8", "9",
     "a", "b", "c", "d", "e", "f", "A", "B", "C", "D", "E", "F"}

UpperHexDigits ==
    {"0", "1", "2", "3", "4", "5", "6", "7", "8", "9", "A", "B", "C", "D", "E", "F"}

\* 32 hex digits with optional hyphens
IsGuidInput(x) ==
    LET digits == SelectSeq(x, LAMBDA c : c # "-")
    IN  Len(digits) = 32 /\ \A k \in DOMAIN digits : digits[k] \in HexDigits

\* C21: normalize_guid of the result of normalize_guid is that result, for
\* every text; normalize_guid("0") is 32 zeros; normalize_guid of 32 hex
\* digits with optional hyphens is 32 digits of 0-9 and A-F.
C21_NormalizeGuidIdempotent ==
    /\ pcFn = "twice" => fn_twice = fn_once
    /\ (pcFn \in {"once", "twice"} /\ fn_input = ShortZero) => fn_once = ThirtyTwoZeros
    /\ (pcFn \in {"once", "twice"} /\ IsGuidInput(fn_input)) =>
           /\ Len(fn_once) = 32
           /\ \A k \in DOMAIN fn_once : fn_once[k] \in UpperHexDigits

\* ====================================================================
\* simplify_hint_path on paths (save/normalize.rs; bin/save_probe.rs has
\* the same body).  A path is held as its segments: the text between the
\* dots, so that the empty text is the one empty segment.
\* ====================================================================

PathSegments ==
    {"", "k1", "Value", "structproperty",
     "StructProperty", "MapProperty", "ArrayProperty", "SetProperty"}
MaxSegments == 3

SegmentPaths == UNION {[1..n -> PathSegments] : n \in 1..MaxSegments}

InitPath ==
    /\ DetectIdle /\ HintsIdle /\ AssignIdle /\ WalkIdle
    /\ ImportIdle /\ CallsIdle /\ WorkersIdle /\ ZipIdle /\ CodecIdle
    /\ RowsIdle
    /\ InspectIdle
    /\ ProgressIdle
    /\ UploadIdle
    /\ fn_input \in SegmentPaths
    /\ fn_once = <<>> /\ fn_twice = <<>>
    /\ pcFn = "input"

\* simplify_hint_path(path)
SimplifyHintPath ==
    /\ pcFn = "input"
    /\ UNCHANGED exceptFn
    /\ fn_once' = simplify_hint_path(fn_input)
    /\ pcFn' = "once"
    /\ UNCHANGED <<fn_input, fn_twice>>

\* simplify_hint_path(simplify_hint_path(path))
SimplifyHintPathAgain ==
    /\ pcFn = "once"
    /\ UNCHANGED exceptFn
    /\ fn_twice' = simplify_hint_path(fn_once)
    /\ pcFn' = "twice"
    /\ UNCHANGED <<fn_input, fn_once>>

NextPath ==
    \/ SimplifyHintPath
    \/ SimplifyHintPathAgain

SpecPath == InitPath /\ [][NextPath]_vars

\* The places of the input whose segment is none of the four.
KeptPlaces ==
    {k \in DOMAIN fn_input :
        fn_input[k] \notin {"StructProperty", "MapProperty", "ArrayProperty", "SetProperty"}}

\* The i-th of the kept places, counted from the left.
KeptPlace(i) == CHOOSE k \in KeptPlaces : Cardinality({j \in KeptPlaces : j <= k}) = i

\* C22: simplify_hint_path of the result of simplify_hint_path is that
\* result; the result's segments are the input's segments other than
\* StructProperty, MapProperty, ArrayProperty and SetProperty, each
\* unchanged and in the input's order (the empty text when none is left).
C22_SimplifyRemovesOnlySentinels ==
    /\ pcFn = "twice" => fn_twice = fn_once
    /\ pcFn \in {"once", "twice"} =>
           IF KeptPlaces = {} THEN fn_once = <<"">>
           ELSE /\ Len(fn_once) = Cardinality(KeptPlaces)
                /\ \A i \in DOMAIN fn_once : fn_once[i] = fn_input[KeptPlace(i)]

\* A path of three segments has lost SetProperty from between two segments
\* that were kept, and the function has been applied again.
C22_Witness ==
    /\ pcFn = "twice"
    /\ Len(fn_input) = 3
    /\ fn_input[2] = "SetProperty"
    /\ Len(fn_once) = 2

\* ====================================================================
\* The planner tables as the INSERT statements of import_zip.rs leave them.
\* A table is the bag of its rows, the id column left out; the columns kept
\* are those of the ON CONFLICT target and those the DO UPDATE sets from the
\* old row.  A column that may be NULL holds None or Some(..), and a NULL
\* is equal to nothing in an ON CONFLICT target.
\* ====================================================================

\* The rows of a table the ON CONFLICT target of a new row names.
PlayerConflicts(rows, import_version_id, player) ==
    {row \in BagToSet(rows) :
        /\ row.import_version_id = import_version_id
        /\ row.player_uid = player.player_uid}

PalConflicts(rows, import_version_id, pal) ==
    {row \in BagToSet(rows) :
        /\ row.import_version_id = import_version_id
        /\ row.pal_instance_id = pal.pal_instance_id}

AssignmentConflicts(rows, import_version_id, a) ==
    {row \in BagToSet(rows) :
        /\ row.import_version_id = import_version_id
        /\ row.base_id = a.base_id
        /\ row.pal_instance_id = a.pal_instance_id
        /\ row.assignment_kind # None /\ row.assignment_kind = a.assignment_kind
        /\ row.assignment_target # None /\ row.assignment_target = a.assignment_target}

\* A table with the rows of `old` replaced by `new`.
Replaced(rows, old, new) ==
    (rows (-) [row \in old |-> CopiesIn(row, rows)]) (+) SetToBag({new})

\* INSERT INTO planner_players .. ON CONFLICT (import_version_id, player_uid)
\* DO UPDATE SET ..
insert_planner_players(rows, import_version_id, player) ==
    LET hit == PlayerConflicts(rows, import_version_id, player)
        old == CHOOSE row \in hit : TRUE
    IN  IF hit = {}
        THEN rows (+) SetToBag({[import_version_id |-> import_version_id,
                                 player_uid |-> player.player_uid,
                                 player_instance_id |-> player.player_instance_id]})
        ELSE Replaced(rows, hit,
                      [old EXCEPT !.player_instance_id =
                                      Coalesce(player.player_instance_id, @)])

\* INSERT INTO planner_pals .. ON CONFLICT (import_version_id,
\* pal_instance_id) DO UPDATE SET ..
insert_planner_pals(rows, import_version_id, pal) ==
    LET hit == PalConflicts(rows, import_version_id, pal)
        old == CHOOSE row \in hit : TRUE
    IN  IF hit = {}
        THEN rows (+) SetToBag({[import_version_id |-> import_version_id,
                                 pal_instance_id |-> pal.pal_instance_id,
                                 owner_player_uid |-> pal.owner_player_uid]})
        ELSE Replaced(rows, hit,
                      [old EXCEPT !.owner_player_uid =
                                      Coalesce(pal.owner_player_uid, @)])

\* INSERT INTO planner_base_assignments without its ON CONFLICT clause.
insert_planner_base_assignments_plain(rows, import_version_id, a) ==
    rows (+) SetToBag({[import_version_id |-> import_version_id,
                        base_id |-> a.base_id,
                        pal_instance_id |-> a.pal_instance_id,
                        assignment_kind |-> a.assignment_kind,
                        assignment_target |-> a.assignment_target,
                        priority |-> a.priority]})

\* INSERT INTO planner_base_assignments .. ON CONFLICT (import_version_id,
\* base_id, pal_instance_id, assignment_kind, assignment_target) DO UPDATE
\* SET priority = EXCLUDED.priority, ..
insert_planner_base_assignments(rows, import_version_id, a) ==
    LET hit == AssignmentConflicts(rows, import_version_id, a)
        old == CHOOSE row \in hit : TRUE
    IN  IF hit = {}
        THEN rows (+) SetToBag({[import_version_id |-> import_version_id,
                                 base_id |-> a.base_id,
                                 pal_instance_id |-> a.pal_instance_id,
                                 assignment_kind |-> a.assignment_kind,
                                 assignment_target |-> a.assignment_target,
                                 priority |-> a.priority]})
        ELSE Replaced(rows, hit, [old EXCEPT !.priority = a.priority])

\* The loops of persist_normalized_extract and of the seeding of
\* run_import_zip: one statement per row, in order.
RECURSIVE InsertPlayers(_, _, _)
InsertPlayers(rows, import_version_id, player_batch) ==
    IF player_batch = <<>> THEN rows
    ELSE InsertPlayers(
             insert_planner_players(rows, import_version_id, Head(player_batch)),
             import_version_id, Tail(player_batch))

RECURSIVE InsertPals(_, _, _)
InsertPals(rows, import_version_id, pal_batch) ==
    IF pal_batch = <<>> THEN rows
    ELSE InsertPals(
             insert_planner_pals(rows, import_version_id, Head(pal_batch)),
             import_version_id, Tail(pal_batch))

RECURSIVE InsertAssignments(_, _, _)
InsertAssignments(rows, import_version_id, assignment_batch) ==
    IF assignment_batch = <<>> THEN rows
    ELSE InsertAssignments(
             insert_planner_base_assignments(rows, import_version_id,
                                             Head(assignment_batch)),
             import_version_id, Tail(assignment_batch))

\* The imports and the calls made; an extract holds no row, one row or two
\* rows of each kind, the two alike or not.
ImportVersions == {1, 2}
MaxPersists == 2

\* The player rows run_import_zip seeds: no instance id.
SeedPlayers(uid) == [player_uid |-> uid, player_instance_id |-> None]

ExtractedPlayers ==
    [player_uid : {"U1"}, player_instance_id : {None, Some("I1")}]

ExtractedPals ==
    [pal_instance_id : {"P1"}, owner_player_uid : {None}]

\* The assignments extract_from_level_sav makes: kind base_slot, the slot
\* index as target and as priority.
ExtractedAssignments ==
    {[base_id |-> "B1",
      pal_instance_id |-> "P1",
      assignment_kind |-> Some("base_slot"),
      assignment_target |-> Some(I32ToString(slot_index)),
      priority |-> Some(slot_index)] : slot_index \in {0, 1}}

Batches(S) == {<<>>} \cup {<<a>> : a \in S} \cup {<<a, b>> : a \in S, b \in S}

InitRows ==
    /\ DetectIdle /\ HintsIdle /\ AssignIdle /\ WalkIdle
    /\ ImportIdle /\ CallsIdle /\ WorkersIdle /\ ZipIdle /\ CodecIdle
    /\ FnIdle
    /\ InspectIdle
    /\ ProgressIdle
    /\ UploadIdle
    /\ player_rows = EmptyBag /\ pal_rows = EmptyBag /\ assignment_rows = EmptyBag
    /\ conflicted = {} /\ persistCount = 0

\* run_import_zip: the seeding of planner_players from the Players/*.sav
\* paths of the archive, which are distinct.
SeedPlayerRows ==
    /\ persistCount < MaxPersists
    /\ UNCHANGED exceptRow
    /\ \E import_version_id \in ImportVersions, uids \in Batches({"U1", "U2"}) :
           /\ \A i, j \in DOMAIN uids : i # j => uids[i] # uids[j]
           /\ LET seeds == [k \in DOMAIN uids |-> SeedPlayers(uids[k])]
                  after == InsertPlayers(player_rows, import_version_id, seeds)
              IN  /\ player_rows' = after
                  /\ conflicted' =
                         IF BagCardinality(after) < BagCardinality(player_rows) + Len(seeds)
                         THEN conflicted \cup {"planner_players"} ELSE conflicted
    /\ persistCount' = persistCount + 1
    /\ UNCHANGED <<pal_rows, assignment_rows>>

\* persist_normalized_extract(state, import_version_id, extracted)
PersistExtractRows ==
    /\ persistCount < MaxPersists
    /\ UNCHANGED exceptRow
    /\ \E import_version_id \in ImportVersions,
          player_batch \in Batches(ExtractedPlayers),
          pal_batch \in Batches(ExtractedPals),
          assignment_batch \in Batches(ExtractedAssignments) :
           LET players_after ==
                   InsertPlayers(player_rows, import_version_id, player_batch)
               pals_after == InsertPals(pal_rows, import_version_id, pal_batch)
               assignments_after ==
                   InsertAssignments(assignment_rows, import_version_id,
                                     assignment_batch)
           IN  /\ player_rows' = players_after
               /\ pal_rows' = pals_after
               /\ assignment_rows' = assignments_after
               /\ conflicted' =
                      conflicted
                          \cup (IF BagCardinality(players_after)
                                      < BagCardinality(player_rows) + Len(player_batch)
                                THEN {"planner_players"} ELSE {})
                          \cup (IF BagCardinality(pals_after)
                                      < BagCardinality(pal_rows) + Len(pal_batch)
                                THEN {"planner_pals"} ELSE {})
                          \cup (IF BagCardinality(assignments_after)
                                      < BagCardinality(assignment_rows)
                                            + Len(assignment_batch)
                                THEN {"planner_base_assignments"} ELSE {})
    /\ persistCount' = persistCount + 1

NextRows ==
    \/ SeedPlayerRows
    \/ PersistExtractRows

SpecRows == InitRows /\ [][NextRows]_vars

\* No two rows of a table have the same values in the given columns.
PlayersUnique ==
    \A r \in BagToSet(player_rows) :
        /\ CopiesIn(r, player_rows) = 1
        /\ \A o \in BagToSet(player_rows) \ {r} :
               <<r.import_version_id, r.player_uid>>
                   # <<o.import_version_id, o.player_uid>>

PalsUnique ==
    \A r \in BagToSet(pal_rows) :
        /\ CopiesIn(r, pal_rows) = 1
        /\ \A o \in BagToSet(pal_rows) \ {r} :
               <<r.import_version_id, r.pal_instance_id>>
                   # <<o.import_version_id, o.pal_instance_id>>

AssignmentsUnique ==
    \A r \in BagToSet(assignment_rows) :
        /\ CopiesIn(r, assignment_rows) = 1
        /\ \A o \in BagToSet(assignment_rows) \ {r} :
               <<r.import_version_id, r.base_id, r.pal_instance_id,
                 r.assignment_kind, r.assignment_target>>
                   # <<o.import_version_id, o.base_id, o.pal_instance_id,
                       o.assignment_kind, o.assignment_target>>

\* C23: after any sequence of seedings and of persist_normalized_extract
\* calls, with repeated player_uid, pal_instance_id and slot indexes in the
\* extracts, no two rows of planner_players agree on (import_version_id,
\* player_uid), no two of planner_pals on (import_version_id,
\* pal_instance_id), and no two of planner_base_assignments on
\* (import_version_id, base_id, pal_instance_id, assignment_kind,
\* assignment_target).
C23_PlannerRowsUnique == PlayersUnique /\ PalsUnique /\ AssignmentsUnique

\* Every table has met a row of its key, and rows of both imports are there.
C23_Witness ==
    /\ conflicted = {"planner_players", "planner_pals", "planner_base_assignments"}
    /\ \E r, o \in BagToSet(assignment_rows) : r.import_version_id # o.import_version_id


(***************************************************************************)
(* api/handlers/import_zip.rs: the loop of run_post_import_processing over *)
(* the save files of the import                                            *)
(***************************************************************************)

is_supported_world_file(relative_path) ==
    \/ relative_path \in {LevelSavName,
                          <<"L", "e", "v", "e", "l", "M", "e", "t", "a">> \o SavSuffix,
                          <<"L", "o", "c", "a", "l", "D", "a", "t", "a">> \o SavSuffix,
                          <<"W", "o", "r", "l", "d", "O", "p", "t", "i", "o", "n">>
                              \o SavSuffix}
    \/ starts_with(relative_path, PlayersDir) /\ ends_with(relative_path, SavSuffix)

\* The Players/*.sav files of the import of the model.
MaxPlayerFiles == 1

PlayerSavPath(n) == PlayersDir \o [k \in 1..n |-> "p"] \o SavSuffix
OtherSavPath == <<"x">> \o SavSuffix

\* The byte slices of the files: too short for a payload or not, of each
\* compression, the decompressor failing or not, the decoded size as the
\* header says or not.
InspectSlices ==
    {b \in [len : {12, 26}, cnk : {FALSE}, magic : {"PlZ", "PlM", "Oth"},
            save_type : {49, 50, 0}, compressed_size : {0},
            uncompressed_size : {4},
            codec : [first : {"ok", "err"}, second : {"ok"}, len : {3, 4},
                     head : {"GVAS"}]] :
        /\ b.save_type = (CASE b.magic = "PlZ" -> 50 [] b.magic = "PlM" -> 49
                            [] OTHER -> 0)
        /\ b.codec.first = "err" => b.codec.len = 4
        /\ b.len = 12 \/ b.magic = "Oth" => b.codec.first = "ok" /\ b.codec.len = 4}

\* The rows the SELECT returns: run_import_zip has stored a row for every
\* file of the archive, with is_supported as is_supported_world_file had it,
\* and accepts no archive without Level.sav and a Players/*.sav.
SaveFileRow(path, slice) ==
    [relative_path |-> path, is_supported |-> is_supported_world_file(path),
     slice |-> slice]

SaveFileLists ==
    UNION {{[k \in 1..(n + 1) |->
                SaveFileRow(IF k = 1 THEN LevelSavName ELSE PlayerSavPath(k - 1),
                            slices[k])]
            \o other :
              slices \in [1..(n + 1) -> InspectSlices],
              other \in {<<>>,
                         <<SaveFileRow(OtherSavPath,
                                       CHOOSE b \in InspectSlices :
                                           b.len = 12 /\ b.magic = "Oth")>>}} :
           n \in 1..MaxPlayerFiles}

InspectPanickedError == <<"variant inspect worker panicked">>
InspectTimedOutError ==
    <<"variant inspect timed out after", VARIANT_INSPECT_TIMEOUT_SECS, "s">>
ReadBytesError == <<"failed to load bytes">>

inspect_arm_decode_error_is_fatal(inspect_result, inspected) ==
    IF inspect_result = "panicked" THEN Err(InspectPanickedError)
    ELSE IF inspect_result = "timed_out" THEN Err(InspectTimedOutError)
    ELSE IF inspected[2].decode_status # "ok" THEN Err(inspected[2].decode_error)
    ELSE Ok(inspected)

\* let (variant, gvas) = match inspect_result { .. }
inspect_arm(inspect_result, inspected) ==
    IF inspect_result = "panicked" THEN Err(InspectPanickedError)
    ELSE IF inspect_result = "timed_out" THEN Err(InspectTimedOutError)
    ELSE Ok(inspected)

\* INSERT INTO save_variant_metadata .. ON CONFLICT (save_file_id) DO UPDATE ..
upsert_save_variant_metadata(table, relative_path, v, g) ==
    Insert(table, relative_path,
           [has_cnk_prefix |-> v.has_cnk_prefix, magic |-> v.magic,
            save_type |-> v.save_type, compression |-> v.compression,
            uncompressed_size |-> v.uncompressed_size,
            compressed_size |-> v.compressed_size,
            gvas_magic |-> g.gvas_magic, decompressed_size |-> g.decompressed_size,
            decode_status |-> g.decode_status, decode_error |-> g.decode_error])

InitInspect ==
    /\ DetectIdle /\ HintsIdle /\ AssignIdle /\ WalkIdle /\ ImportIdle
    /\ CallsIdle /\ WorkersIdle /\ ZipIdle /\ CodecIdle /\ FnIdle
    /\ RowsIdle
    /\ ProgressIdle
    /\ UploadIdle
    /\ save_files \in SaveFileLists
    /\ next_file = 1
    /\ save_variant_metadata = EmptyMap
    /\ level_sav_for_normalize = None
    /\ inspectedImport =
          update_import_progress(
              [status |-> "processing", progress_phase |-> "queued_decode",
               progress_pct |-> 35,
               progress_message |-> <<"Queued decode and normalization">>,
               parse_metrics_json |-> None, failed_error |-> None,
               completed |-> FALSE],
              "decoding_variants", 50, <<"Decoding SAV wrappers and GVAS headers">>)
    /\ pcInspect = "inspecting"

\* One turn of `for row in save_files`.
InspectSaveFile ==
    /\ pcInspect = "inspecting" /\ next_file <= Len(save_files)
    /\ UNCHANGED exceptInspect
    /\ UNCHANGED save_files
    /\ LET row == save_files[next_file]
       IN  IF ~row.is_supported \/ ~ends_with(row.relative_path, SavSuffix)
           THEN /\ next_file' = next_file + 1
                /\ UNCHANGED <<save_variant_metadata, level_sav_for_normalize,
                               inspectedImport, pcInspect>>
           ELSE \E read \in {"ok", "err"}, inspect_result \in {"ok", "panicked", "timed_out"} :
                  LET v == detect_save_variant(row.slice)
                      g == inspect_gvas(row.slice, v)
                      arm == inspect_arm(inspect_result, <<v, g>>)
                  IN  IF read = "err"
                      THEN /\ inspectedImport' =
                                 mark_import_failed(inspectedImport, ReadBytesError)
                           /\ pcInspect' = "failed"
                           /\ UNCHANGED <<next_file, save_variant_metadata,
                                          level_sav_for_normalize>>
                      ELSE IF ~arm.ok
                      THEN /\ inspectedImport' =
                                 mark_import_failed(inspectedImport, arm.err)
                           /\ pcInspect' = "failed"
                           /\ UNCHANGED <<next_file, save_variant_metadata,
                                          level_sav_for_normalize>>
                      ELSE /\ save_variant_metadata' =
                                 upsert_save_variant_metadata(
                                     save_variant_metadata, row.relative_path,
                                     arm.val[1], arm.val[2])
                           /\ level_sav_for_normalize' =
                                 IF row.relative_path = LevelSavName
                                 THEN Some(row.relative_path)
                                 ELSE level_sav_for_normalize
                           /\ next_file' = next_file + 1
                           /\ UNCHANGED <<inspectedImport, pcInspect>>

\* After the loop: the update to 75, and the normalization of the Level.sav
\* the loop has kept.
StartNormalization ==
    /\ pcInspect = "inspecting" /\ next_file > Len(save_files)
    /\ UNCHANGED exceptInspect
    /\ inspectedImport' =
          update_import_progress(inspectedImport, "normalizing_entities", 75,
                                 <<"Extracting planner entities from Level.sav">>)
    /\ pcInspect' = IF level_sav_for_normalize # None THEN "normalizing"
                    ELSE "finalize"
    /\ UNCHANGED <<save_files, next_file, save_variant_metadata,
                   level_sav_for_normalize>>

NextInspect ==
    \/ InspectSaveFile
    \/ StartNormalization

SpecInspect == InitInspect /\ [][NextInspect]_vars

\* The files the loop inspects, and those whose wrapper does not decode.
Inspected(row) == row.is_supported /\ ends_with(row.relative_path, SavSuffix)

WrapperFails(row) ==
    ~decode_to_gvas(row.slice, detect_save_variant(row.slice)).ok

WrapperErrors ==
    {"payload boundaries are invalid", "zlib decode failed",
     "zlib second-pass decode failed", "decoded size mismatch",
     "oodle decode requires uncompressed_size from save header",
     "oodle decode failed", "oodle decoded byte count mismatch"}

\* C24: a file whose wrapper does not decode (unknown compression, invalid
\* payload bounds, a failing decompressor, a size mismatch) does not fail
\* the import: once the loop is past the file, its save_variant_metadata row
\* has decode_status "not_attempted" without an error text or "error" with
\* the text of the failure; the import fails in the loop only by an
\* unreadable file, a panic or the timeout of the inspection; and the loop
\* goes on to the remaining files and to the normalization of Level.sav.
C24_InspectFailureRecordedNotFatal ==
    /\ \A k \in 1..(next_file - 1) :
         LET row == save_files[k]
         IN  Inspected(row) /\ WrapperFails(row) =>
               /\ row.relative_path \in DOMAIN save_variant_metadata
               /\ LET meta == save_variant_metadata[row.relative_path]
                  IN  \/ meta.decode_status = "not_attempted" /\ meta.decode_error = None
                      \/ /\ meta.decode_status = "error"
                         /\ IsSome(meta.decode_error)
                         /\ Unwrap(meta.decode_error) \in WrapperErrors
    /\ inspectedImport.status = "failed" <=> pcInspect = "failed"
    /\ pcInspect = "failed" =>
          inspectedImport.failed_error
              \in {Some(ReadBytesError), Some(InspectPanickedError),
                   Some(InspectTimedOutError)}
    /\ pcInspect \in {"normalizing", "finalize"} =>
          /\ next_file = Len(save_files) + 1
          /\ pcInspect = "normalizing"
          /\ inspectedImport.status = "processing"
          /\ inspectedImport.progress_pct = 75

\* The loop is through and the normalization started although the wrapper of
\* Level.sav did not decode and that of a player file was of no known
\* compression.
C24_Witness ==
    /\ pcInspect = "normalizing"
    /\ save_variant_metadata[LevelSavName].decode_status = "error"
    /\ \E path \in DOMAIN save_variant_metadata :
          save_variant_metadata[path].decode_status = "not_attempted"


(***************************************************************************)
(* parse_with_auto_hints: the counts it returns and the discovery file     *)
(***************************************************************************)

\* The call has returned Ok.
ReturnedOk == pcHints = "done" /\ hintResult.ok

\* An append to the discovery file has failed in this process.
AppendFailed == ioFailAt # 0 /\ ioFailAt <= appendCalls

\* C25 as stated: on every successful return of parse_with_auto_hints
\* hint_count_end = hint_count_start + hint_pass_count, and the discovery
\* file has gained exactly hint_pass_count lines in the normalization.
C25_CountsAndLinesAgree ==
    ReturnedOk =>
        /\ hintResult.val.hint_count_end
              = hintResult.val.hint_count_start + hintResult.val.hint_pass_count
        /\ resolver = "normalize" =>
              Len(discoveryFile) = linesAtStart + hintResult.val.hint_pass_count

\* C25, amended: on every successful return hint_count_end =
\* hint_count_start + hint_pass_count; the discovery file has gained at
\* most hint_pass_count lines in the normalization, and exactly that many
\* when no append to the file has failed.
C25_CountsAgreeLinesUnlessAppendFails ==
    ReturnedOk =>
        /\ hintResult.val.hint_count_end
              = hintResult.val.hint_count_start + hintResult.val.hint_pass_count
        /\ hintResult.val.hint_pass_count = hint_pass_count
        /\ resolver = "normalize" =>
              /\ Len(discoveryFile) <= linesAtStart + hint_pass_count
              /\ ~AppendFailed =>
                    Len(discoveryFile) = linesAtStart + hint_pass_count

\* A normalization has returned Ok after more than one learning pass, every
\* append made.
C25_Witness ==
    /\ ReturnedOk /\ resolver = "normalize"
    /\ hint_pass_count > 1
    /\ ~AppendFailed
    /\ hint_count_start > 0
    /\ Len(discoveryFile) = linesAtStart + hint_pass_count


(***************************************************************************)
(* save/normalize.rs: the progress events of parse_with_auto_hints and of  *)
(* parse_character_map                                                     *)
(***************************************************************************)

\* The largest CharacterSaveParameterMap of the model: two multiples of 64
\* and one entry more.
MaxWalkEntries == 129

\* An entry for each thing the loop of parse_character_map may do with one.
EntryFates ==
    {"skipped", "dropped", "stream_error", "short_tail", "no_save_parameter",
     "player", "pal"}

FateSamples ==
    {CHOOSE e \in CharacterEntries : character_entry_fate(e, {}) = fate :
        fate \in EntryFates}

\* A call of parse_with_auto_hints on a stream that needs every pass, or a
\* call of parse_character_map on a map of progress_total entries.
InitProgress ==
    /\ DetectIdle /\ HintsIdle /\ AssignIdle /\ WalkIdle /\ ImportIdle
    /\ CallsIdle /\ WorkersIdle /\ ZipIdle /\ CodecIdle /\ FnIdle
    /\ RowsIdle /\ InspectIdle
    /\ UploadIdle
    /\ pcProgress \in {"hints", "walk"}
    /\ progress_total \in (IF pcProgress = "walk" THEN 0..MaxWalkEntries ELSE {0})
    /\ progress_processed = 0 /\ progress_passes = 0
    /\ progress_fate = "none" /\ progress_event = None /\ progress_counts = <<>>

\* A hint-learning pass of parse_with_auto_hints: hint_pass_count += 1 and
\* the event of the pass.
HintPassProgress ==
    /\ pcProgress = "hints" /\ progress_passes < MAX_FALLBACK_PASSES
    /\ UNCHANGED exceptProgress
    /\ progress_passes' = progress_passes + 1
    /\ progress_event' = Some(hint_pass_progress(progress_passes + 1))
    /\ UNCHANGED <<progress_total, progress_processed, progress_fate,
                   progress_counts, pcProgress>>

\* The parser has every hint, or the pass limit is met.
HintPassesReturn ==
    /\ pcProgress = "hints"
    /\ UNCHANGED exceptProgress
    /\ pcProgress' = "resolved"
    /\ UNCHANGED <<progress_total, progress_processed, progress_passes,
                   progress_fate, progress_event, progress_counts>>

\* parse_character_map up to its loop: the first emit_progress.  The counts
\* of selected entries, players and pals are not followed here (they are 0
\* in the events): the percentage and the processed count do not depend on
\* them.
WalkFirstProgress ==
    /\ pcProgress = "walk" /\ progress_event = None
    /\ UNCHANGED exceptProgress
    /\ progress_event' = Some(emit_progress(0, 0, 0, 0, progress_total))
    /\ progress_counts' = Append(progress_counts, 0)
    /\ UNCHANGED <<progress_total, progress_processed, progress_passes,
                   progress_fate, pcProgress>>

\* One turn of the loop: whatever is done with the entry, short of the
\* error of its property stream, the turn ends with the test of
\* should_emit_character_progress.
WalkEntryProgress ==
    /\ pcProgress = "walk" /\ progress_event # None
    /\ progress_processed < progress_total
    /\ UNCHANGED exceptProgress
    /\ \E e \in FateSamples :
         LET fate == character_entry_fate(e, {})
             processed == progress_processed + 1
         IN  /\ progress_processed' = processed
             /\ progress_fate' = fate
             /\ IF fate = "stream_error"
                THEN /\ pcProgress' = "failed"
                     /\ UNCHANGED <<progress_event, progress_counts>>
                ELSE IF should_emit_character_progress(processed, progress_total)
                THEN /\ progress_event' =
                           Some(emit_progress(processed, 0, 0, 0, progress_total))
                     /\ progress_counts' = Append(progress_counts, processed)
                     /\ UNCHANGED pcProgress
                ELSE UNCHANGED <<progress_event, progress_counts, pcProgress>>
    /\ UNCHANGED <<progress_total, progress_passes>>

\* After the loop: the emit_progress the loop has not made, and Ok(..).
WalkReturn ==
    /\ pcProgress = "walk" /\ progress_event # None
    /\ progress_processed = progress_total
    /\ UNCHANGED exceptProgress
    /\ IF ~should_emit_character_progress(progress_processed, progress_total)
       THEN /\ progress_event' =
                  Some(emit_progress(progress_processed, 0, 0, 0, progress_total))
            /\ progress_counts' = Append(progress_counts, progress_processed)
       ELSE UNCHANGED <<progress_event, progress_counts>>
    /\ pcProgress' = "returned"
    /\ UNCHANGED <<progress_total, progress_processed, progress_passes,
                   progress_fate>>

NextProgress ==
    \/ HintPassProgress
    \/ HintPassesReturn
    \/ WalkFirstProgress
    \/ WalkEntryProgress
    \/ WalkReturn

SpecProgress == InitProgress /\ [][NextProgress]_vars

\* C26: the event of hint pass `pass` carries 78 + pass*11/64 (integer
\* division), which is within 78..89 for every pass of 1..64; an event of
\* the walk carries 90 + processed*8/total, or 98 when total is 0, which is
\* within 90..98 for every processed of 0..total.  (processed as i32 * 8
\* is far from the end of i32 for the maps of the model; a map would need
\* 2^28 entries to reach it.)
C26_ProgressPercentages ==
    progress_event # None =>
        LET pct == Unwrap(Unwrap(progress_event).progress_pct_hint)
            processed == Unwrap(progress_event).processed_character_entries
        IN  IF progress_passes > 0
            THEN /\ progress_passes \in 1..64
                 /\ pct = 78 + ((progress_passes * 11) \div 64)
                 /\ pct \in 78..89
            ELSE /\ processed \in 0..progress_total
                 /\ processed = progress_counts[Len(progress_counts)]
                 /\ pct = (IF progress_total = 0 THEN 98
                           ELSE 90 + ((processed * 8) \div progress_total))
                 /\ pct \in 90..98

\* The 64th pass has been made, at 89.
C26_Witness ==
    /\ progress_passes = 64
    /\ progress_event # None
    /\ Unwrap(Unwrap(progress_event).progress_pct_hint) = 89

\* The processed counts at which a walk over `total` entries emits: 0, the
\* multiples of 64 and total, each once, in ascending order.
EmitCounts(from, total) ==
    LET counts == {c \in from..total : c = 0 \/ c % 64 = 0 \/ c = total}
    IN  [i \in 1..Cardinality(counts) |->
            CHOOSE c \in counts : Cardinality({d \in counts : d <= c}) = i]

\* C27: a walk that returns without error has emitted progress once before
\* the first entry, once after each entry whose processed count is a
\* multiple of 64 and once with processed = total, never twice for one
\* count, whatever was done with each entry.
C27_WalkEmissions ==
    /\ pcProgress = "returned" => progress_counts = EmitCounts(0, progress_total)
    /\ pcProgress = "walk" /\ progress_event # None =>
          progress_counts
              = SelectSeq(EmitCounts(0, progress_total),
                          LAMBDA count : count <= progress_processed)

\* A walk over 128 entries has returned: three events, the last entry a pal.
C27_Witness ==
    /\ pcProgress = "returned"
    /\ progress_total = 128
    /\ progress_counts = <<0, 64, 128>>
    /\ progress_fate = "pal"


(***************************************************************************)
(* The row of save_import_versions over the life of one import             *)
(***************************************************************************)

\* The event the select loop receives next is the one the worker emitted
\* after those already received.
NextReceived == workerSent - Len(progressQueue) + 1

\* run_import_zip inserts the row at 10 and updates it to 35 in the one
\* transaction RunImportZip stands for.
ProgressValues == {35, 50} \cup 75..98 \cup {100}

\* C28: the progress percentage of the row of an import never decreases: from
\* the 35 of run_import_zip (which inserts the row at 10 in the same
\* transaction) to 50, 75, the values of the worker's events, each within
\* 75..98 and applied in the order the worker emitted them, and 100; an
\* event is applied only when it is the next the worker emitted.
C28_ProgressNeverDecreases ==
    [][/\ importRow.status = "none" /\ importRow'.status # "none" =>
             importRow'.progress_pct = 35
       /\ importRow.status # "none" =>
             /\ importRow'.progress_pct >= importRow.progress_pct
             /\ importRow'.progress_pct \in ProgressValues
       /\ (pcTask = "normalizing" /\ pcTask' = "normalizing"
             /\ importRow' # importRow) =>
             /\ progressQueue # <<>>
             /\ Head(progressQueue) = worker_events(workerPlan)[NextReceived]
             /\ progressQueue' = Tail(progressQueue)
             /\ importRow'.progress_message = Head(progressQueue).message
             /\ importRow'.progress_pct
                   = Unwrap(Head(progressQueue).progress_pct_hint)
             /\ importRow'.progress_pct \in 75..98]_vars

\* The import is ready, every event of a worker that walked the characters
\* applied up to the last at 98.
C28_Witness ==
    /\ importRow.status = "ready" /\ importRow.progress_pct = 100
    /\ workerPlan.passes > 0
    /\ last_progress_pct = Some(98)
    /\ progressQueue = <<>>

Terminal(row) == row.status \in {"ready", "failed"}

\* C29: a ready import has phase complete and no failed_error, a failed one
\* phase failed and a failed_error; and once the import is ready or failed
\* no step changes its row or the rows of the planner tables, the steps of
\* a worker that runs on after the timeout included.
C29_TerminalIsFinal ==
    [][/\ importRow'.status = "ready" =>
             importRow'.progress_phase = "complete" /\ importRow'.failed_error = None
       /\ importRow'.status = "failed" =>
             importRow'.progress_phase = "failed" /\ importRow'.failed_error # None
       /\ Terminal(importRow) =>
             UNCHANGED <<importRow, planner_players, planner_pals,
                         planner_base_assignments, pcTask>>]_vars

\* The import failed by the timeout before the worker had emitted anything,
\* and the worker has since emitted all its events and returned.
C29_Witness ==
    /\ importRow.status = "failed" /\ aborted
    /\ importRow.failed_error = Some(TimedOutError)
    /\ pcWorker = "finished"
    /\ workerPlan.outcome = "ok" /\ workerPlan.data.players # <<>>
    /\ workerSent = Len(worker_events(workerPlan))
    /\ last_progress_pct = None /\ progressQueue = <<>>
    /\ planner_pals = EmptyMap


(***************************************************************************)
(* api/handlers/import_zip.rs: run_import_zip from the multipart form to   *)
(* its response                                                            *)
(***************************************************************************)

\* ApiError::internal(..)
internal_as_bad_request(text) == [status |-> 400, context |-> "", text |-> text]

internal(text) == [status |-> 500, context |-> "", text |-> text]

\* The largest upload of the model, in bytes, and the most fields of a form.
MaxUploadBytes == 3
MaxFields == 2

\* state.settings.max_import_zip_bytes
max_import_zip_bytes == MaxUploadBytes - 1

\* char::to_ascii_lowercase on the letters of the file names of the model.
AsciiLower(c) ==
    CASE c = "Z" -> "z" [] c = "I" -> "i" [] c = "P" -> "p" [] OTHER -> c

to_ascii_lowercase(s) == [k \in DOMAIN s |-> AsciiLower(s[k])]

ZipSuffix == <<".", "z", "i", "p">>

FileNames ==
    {<<"w", ".", "z", "i", "p">>, <<"w", ".", "Z", "I", "P">>,
     <<"w", ".", "t", "x", "t">>}

\* A field of the form: one the form reader fails on, one without a file
\* name, or a file of a name and a length.
FormFields ==
    {[kind |-> "broken", file_name |-> None, size |-> 0],
     [kind |-> "text", file_name |-> None, size |-> 0]}
    \cup [kind : {"file"}, file_name : {Some(name) : name \in FileNames},
          size : 1..MaxUploadBytes]

\* The archives uploaded, by the names of their entries (indexes of
\* RawNames): unreadable, without entries, two accepted ones, and one for
\* each rejection.
ZipContents ==
    {[readable |-> FALSE, names |-> {}]}
    \cup [readable : {TRUE},
          names : {{}, {1, 2}, {4, 5}, {15}, {17}, {11}, {1, 3}, {1, 2, 3},
                   {4, 5, 14}, {4, 5, 12}}]

NoZipFileError == "multipart request did not include a ZIP file"
ManyFilesError == "multipart request must contain exactly one ZIP file field"
ExtensionError == "uploaded file must have .zip extension"
TooLargeError == "uploaded ZIP is too large"
FormError == "failed to read multipart form data"
UnreadableZipError == "uploaded file is not a readable ZIP archive"

\* while let Some(field) = multipart.next_field().await.map_err(..)? { .. }
\* and the two ok_or_else after it.
RECURSIVE ReadFields(_, _)
ReadFields(fields, kept) ==
    IF fields = <<>>
    THEN (IF kept = None THEN Err(bad_request("", NoZipFileError))
          ELSE Ok(Unwrap(kept)))
    ELSE LET field == Head(fields)
         IN  IF field.kind = "broken" THEN Err(bad_request(FormError, ""))
             ELSE IF field.file_name = None THEN ReadFields(Tail(fields), kept)
             ELSE IF kept # None THEN Err(bad_request("", ManyFilesError))
             ELSE IF ~ends_with(to_ascii_lowercase(Unwrap(field.file_name)), ZipSuffix)
             THEN Err(bad_request("", ExtensionError))
             ELSE IF field.size > max_import_zip_bytes
             THEN Err(bad_request("", TooLargeError))
             ELSE ReadFields(Tail(fields), Some(field))

\* parse_zip_entries(&zip_bytes) to the last check on rooted_entries: the
\* keys of rooted_entries, or the rejection.
CheckArchive(content) ==
    IF ~content.readable
    THEN Err(bad_request("invalid ZIP content", UnreadableZipError))
    ELSE LET parsed == parse_zip_entries(NamesFrom(content.names, 1))
         IN  IF ~parsed.ok THEN Err(bad_request("invalid ZIP content", parsed.err))
             ELSE LET root == detect_world_root(parsed.val)
                  IN  IF ~root.ok THEN Err(bad_request("invalid world root", root.err))
                      ELSE LET loop == RootEntries(parsed.val, root.val, {})
                               error == rooted_entries_error(loop.rooted)
                           IN  IF loop.duplicate # None
                               THEN Err(bad_request("", DuplicatePathError))
                               ELSE IF error # None
                               THEN Err(bad_request("", Unwrap(error)))
                               ELSE Ok(loop.rooted)

\* The storage keys of an import: storage/imports/{id}/source.zip and
\* storage/imports/{id}/files/{relative_path}.
SourceZipKey == <<"source.zip">>
FileKey(relative_path) == <<"files", relative_path>>

InitUpload ==
    /\ DetectIdle /\ HintsIdle /\ AssignIdle /\ WalkIdle /\ ImportIdle
    /\ CallsIdle /\ WorkersIdle /\ CodecIdle /\ FnIdle
    /\ RowsIdle /\ InspectIdle /\ ProgressIdle
    /\ platform \in {"unix", "windows"}
    /\ archive = {} /\ entries = NoResult
    /\ world_root_path = NoResult /\ rooted_entries = {}
    /\ zipRejection = None /\ zipPersisted = FALSE /\ pcZip = "idle"
    /\ multipart \in UNION {[1..n -> FormFields] : n \in 0..MaxFields}
    /\ zip_content \in ZipContents
    /\ uploaded = None /\ upload_rooted = {} /\ blob_store = {}
    /\ import_version_rows = <<>> /\ post_import_spawned = FALSE
    /\ upload_response = NoResult /\ pcUpload = "request"

Responds(response) ==
    /\ upload_response' = response
    /\ pcUpload' = "responded"

\* The loop over the fields of the form.
ReadMultipart ==
    /\ pcUpload = "request"
    /\ UNCHANGED exceptUpload
    /\ LET read == ReadFields(multipart, None)
       IN  IF read.ok
           THEN /\ uploaded' = Some(read.val)
                /\ pcUpload' = "read"
                /\ UNCHANGED upload_response
           ELSE /\ Responds(read)
                /\ UNCHANGED uploaded
    /\ UNCHANGED <<multipart, zip_content, upload_rooted, blob_store,
                   import_version_rows, post_import_spawned>>

\* The archive is parsed, its world root found and its files rooted.
CheckUploadedArchive ==
    /\ pcUpload = "read"
    /\ UNCHANGED exceptUpload
    /\ LET checked == CheckArchive(zip_content)
       IN  IF checked.ok
           THEN /\ upload_rooted' = checked.val
                /\ pcUpload' = "checked"
                /\ UNCHANGED upload_response
           ELSE /\ Responds(checked)
                /\ UNCHANGED upload_rooted
    /\ UNCHANGED <<multipart, zip_content, uploaded, blob_store,
                   import_version_rows, post_import_spawned>>

\* The writes: the source ZIP, then in one transaction the rows, each file
\* written as its row is inserted; the commit, the spawn and the response.
\* `written` files are on the store when a write or a statement fails.
PersistUpload ==
    /\ pcUpload = "checked"
    /\ UNCHANGED exceptUpload
    /\ \E outcome \in {"ok", "source_write_failed", "failed_later"},
          written \in SUBSET upload_rooted :
         CASE outcome = "source_write_failed" ->
                /\ written = {}
                /\ Responds(Err(internal("failed to write source ZIP")))
                /\ UNCHANGED <<blob_store, import_version_rows, post_import_spawned>>
           [] outcome = "failed_later" ->
                /\ written # upload_rooted
                /\ blob_store' = blob_store \cup {SourceZipKey}
                                    \cup {FileKey(path) : path \in written}
                /\ Responds(Err(internal("failed to persist the import")))
                /\ UNCHANGED <<import_version_rows, post_import_spawned>>
           [] OTHER ->
                /\ written = upload_rooted
                /\ blob_store' = blob_store \cup {SourceZipKey}
                                    \cup {FileKey(path) : path \in written}
                /\ import_version_rows' =
                      Append(import_version_rows,
                             [status |-> "processing",
                              progress_phase |-> "queued_decode",
                              progress_pct |-> 35])
                /\ post_import_spawned' = TRUE
                /\ Responds(Ok([persisted_file_count |-> Cardinality(upload_rooted)]))
    /\ UNCHANGED <<multipart, zip_content, uploaded, upload_rooted>>

NextUpload ==
    \/ ReadMultipart
    \/ CheckUploadedArchive
    \/ PersistUpload

SpecUpload == InitUpload /\ [][NextUpload]_vars

\* The request was answered with an ApiError of status 400.
InputRejected ==
    /\ pcUpload = "responded" /\ ~upload_response.ok
    /\ upload_response.err.status = 400

\* The texts of the rejections of the form and of the archive.
RejectionTexts ==
    {NoZipFileError, ManyFilesError, ExtensionError, TooLargeError, "",
     UnreadableZipError, NoFilesError, UnsafePathError, NoValidRootError,
     PlayerDirError, DuplicatePathError}

\* C30: an upload answered with a bad-request error (no file field, a second
\* file field, a name without .zip, too many bytes, an unreadable or empty
\* archive, an unsafe entry path, no valid world root, a duplicate relative
\* path, a Player/ directory, no Level.sav or Players/*.sav) has written no
\* artifact, created no row of save_import_versions and spawned no
\* post-import processing.
C30_RejectedUploadLeavesNoTrace ==
    InputRejected =>
        /\ upload_response.err.text \in RejectionTexts
        /\ blob_store = {}
        /\ import_version_rows = <<>>
        /\ ~post_import_spawned

\* An archive with a duplicate relative path was rejected after the form was
\* read and the world root found.
C30_Witness ==
    /\ InputRejected
    /\ uploaded # None
    /\ upload_response.err.text = DuplicatePathError
    /\ blob_store = {}

=============================================================================
